---- MODULE Spec2Model ----
(***************************************************************************)
(* 5G network slice simulator: the three slice QoS engines (src/slices)   *)
(* and the backend's simulation runs with their tick loops (src/backend). *)
(*                                                                         *)
(* Each slice service is its own process with one module-level            *)
(* qos_engine; a behaviour of EngineSpec is a behaviour of one such       *)
(* service, the kind of which is fixed by the initial state.  A behaviour *)
(* of RunSpec is a behaviour of the backend process, which sees the slice *)
(* services only through the responses of their /process endpoints.       *)
(* ServeSpec is one slice service with its /process handler taken one     *)
(* loop iteration at a time, and ShareSpec is one slice service called by *)
(* the loops of two runs.                                                 *)
(*                                                                         *)
(* Units: latencies and jitter in tenths of a millisecond, throughput and *)
(* bandwidth in Mbps, drop rates in 1e-4 percent, so that the float        *)
(* thresholds of the CONFIG tables are integers.                           *)
(***************************************************************************)
EXTENDS Integers, Sequences, FiniteSets, Bags, TLC

VARIABLES qos_engine,    \* the slice service's module-level engine object
          batch_stats,   \* the BatchResult the last /process call returned
          simulations,   \* sim_manager.simulations: run id -> Simulation
          tasks,         \* the run_simulation_loop tasks created so far: a bag
          stop_seen,     \* history: runs that got a stop request while RUNNING
          calls,         \* the /process handlers between their first and last
                         \* statement, in the order they were entered
          solo,          \* history: the engine and the response one run would
                         \* have had with the service to itself
          traffic_generator,  \* the scheduler's module-level generator object
          generated,     \* what the last generate call or request returned
          conn_manager,  \* the backend's ConnectionManager object
          websockets,    \* the WebSocket objects of the clients that connected
          broadcasts,    \* the broadcast_to_simulation calls that have not
                         \* returned, in the order they were entered
          snapshots,     \* history: the number of snapshots handed to a broadcast
          published      \* history: the broadcast that ended last

vars == <<qos_engine, batch_stats, simulations, tasks, stop_seen, calls, solo,
          traffic_generator, generated,
          conn_manager, websockets, broadcasts, snapshots, published>>

engine_vars == <<qos_engine, batch_stats, calls, solo>>
run_vars == <<simulations, tasks, stop_seen>>
gen_vars == <<traffic_generator, generated>>
conn_vars == <<conn_manager, websockets, broadcasts, snapshots, published>>

-----------------------------------------------------------------------------
(* Bounds of the model *)

\* CONFIG["queue_size"] of an engine (10000 / 5000 / 100000 in the source)
QueueSize == 2
\* CONFIG["device_limit"] of the mMTC engine (100000 in the source); below
\* QueueSize, so that the registry can be full while the queue has room
DeviceLimit == 1
\* longest batch handed to process_batch
MaxBatch == 2
\* packets an engine is handed between two resets
MaxPackets == 5
\* start requests the backend serves, each creating a tick loop task
MaxStarts == 2
\* maxlen of the deques that keep a history (1000 in the source)
HistorySize == 2
\* packets the generator is asked for between two resets
MaxGenerated == 12

-----------------------------------------------------------------------------
(* Helpers *)

Min(a, b) == IF a <= b THEN a ELSE b
Max(a, b) == IF a >= b THEN a ELSE b
Abs(a) == IF a >= 0 THEN a ELSE -a

\* all sequences over S of length 0..n
RECURSIVE SeqsUpTo(_, _)
SeqsUpTo(S, n) ==
    IF n = 0 THEN {<<>>}
    ELSE LET shorter == SeqsUpTo(S, n - 1)
         IN  shorter \cup {Append(s, x) : s \in {t \in shorter : Len(t) = n - 1}, x \in S}

\* the rates of a BatchResult are percentages; the model keeps them in
\* 1e-4 percent, rounded down
Percent == 10000

\* (processed - failed) / processed * 100 if processed > 0 else 0
Rate(processed, failed) ==
    IF processed > 0 THEN ((processed - failed) * 100 * Percent) \div processed ELSE 0

\* the qos_compliance_rate computed from the drops instead of the violations
QosComplianceRateOfDrops(e) == Rate(e.processed_packets, e.dropped_packets)

\* success_rate (eMBB, mMTC) and reliability_index (URLLC) of batch_stats
SuccessRate(e) == Rate(e.processed_packets, e.dropped_packets)

\* qos_compliance_rate of batch_stats
QosComplianceRate(e) == Rate(e.processed_packets, e.qos_violations)

\* the answer of a /process endpoint to an exception: HTTPException(400)
HTTP_400 == [slice_type |-> "error", status_code |-> 400]

\* what a /process call answers after the for loop of process_batch: the
\* BatchResult, or HTTP 400 when an exception has left the loop
Answer(done, batch_result) ==
    IF done.raised THEN [engine |-> done.engine, stats |-> HTTP_400] ELSE batch_result

\* append of a deque made without maxlen
DequeAppendUnbounded(q, x, maxlen) == Append(q, x)

\* collections.deque(maxlen=n).append: a full deque discards its oldest entry
DequeAppend(q, x, maxlen) ==
    IF Len(q) >= maxlen THEN Append(Tail(q), x) ELSE Append(q, x)

\* the end of process_batch: batch_stats is appended to metrics_history and
\* returned. entry is batch_stats as the history holds it
Appended(e, stats, entry) ==
    [engine |-> [e EXCEPT !.metrics_history = DequeAppend(@, entry, HistorySize)],
     stats |-> stats]

-----------------------------------------------------------------------------
(* eMBB engine: src/slices/embb/main.py *)

EMBB_CONFIG ==
    [max_latency |-> 2000, min_throughput |-> 100, max_drop_rate |-> 5000,
     max_jitter |-> 500, queue_size |-> QueueSize]

EMBBQoSEngine ==
    [slice_type |-> "embb", queue |-> <<>>, processed_packets |-> 0,
     dropped_packets |-> 0, qos_violations |-> 0, last_latency |-> 0,
     latency_jitter |-> 0, metrics_history |-> <<>>]

\* packets the /process endpoint builds: size in 500..2000, priority in 3..6
EmbbPackets ==
    {[packet_id |-> "embb_0", size |-> 500, priority |-> 3],
     [packet_id |-> "embb_1", size |-> 2000, priority |-> 6]}

\* the draws of random.uniform for one packet: lat = base latency +
\* propagation (25..130 ms), bw = bandwidth, dr = base drop rate
EmbbSamples ==
    {[lat |-> 250, bw |-> 1000, dr |-> 100],
     [lat |-> 1300, bw |-> 500, dr |-> 3000]}

\* the capacity test of enqueue_packet, off by one
EmbbQueueFullOffByOne(e) == Len(e.queue) > EMBB_CONFIG.queue_size

EmbbQueueFull(e) == Len(e.queue) >= EMBB_CONFIG.queue_size

\* enqueue_packet: [engine, ok]
EmbbEnqueuePacket(e, packet) ==
    IF EmbbQueueFull(e)
    THEN [engine |-> [e EXCEPT !.dropped_packets = @ + 1], ok |-> FALSE]
    ELSE [engine |-> [e EXCEPT !.queue = DequeAppend(@, packet, EMBB_CONFIG.queue_size)],
          ok |-> TRUE]

EmbbCalculateLatency(e, r) ==
    Min(r.lat + (Len(e.queue) * 800) \div EMBB_CONFIG.queue_size,
        (EMBB_CONFIG.max_latency * 12) \div 10)

\* size*8 / (total_time * 1e6), total_time = last_latency/1000 + size*8/(bw*1e6)
CalculateThroughput(last_latency, packet_size, bw, cap) ==
    Max(0, Min((8 * packet_size * bw) \div (100 * last_latency * bw + 8 * packet_size), cap))

EmbbCalculateThroughput(e, packet_size, r) ==
    CalculateThroughput(e.last_latency, packet_size, r.bw, 1000)

EmbbCalculateDropRate(e, r) ==
    Min((r.dr * (EMBB_CONFIG.queue_size + 2 * Len(e.queue))) \div EMBB_CONFIG.queue_size,
        EMBB_CONFIG.max_drop_rate * 2)

\* _calculate_jitter without its test of last_latency
CalculateJitterUnguarded(last_latency, current_latency, cap) ==
    Min(Abs(current_latency - last_latency), cap)

CalculateJitter(last_latency, current_latency, cap) ==
    IF last_latency = 0 THEN 0 ELSE Min(Abs(current_latency - last_latency), cap)

EmbbCalculateJitter(e, current_latency) ==
    CalculateJitter(e.last_latency, current_latency, EMBB_CONFIG.max_jitter * 2)

EmbbQosSatisfied(latency, throughput, drop_rate, jitter) ==
    /\ latency <= EMBB_CONFIG.max_latency
    /\ throughput >= EMBB_CONFIG.min_throughput
    /\ drop_rate <= EMBB_CONFIG.max_drop_rate
    /\ jitter <= EMBB_CONFIG.max_jitter

\* one iteration of the for loop of process_batch after its enqueue_packet
\* call returned enq
EmbbProcessEnqueued(enq, results, packet, r) ==
    LET e1 == enq.engine
        latency == EmbbCalculateLatency(e1, r)
        throughput == EmbbCalculateThroughput(e1, packet.size, r)
        drop_rate == EmbbCalculateDropRate(e1, r)
        jitter == EmbbCalculateJitter(e1, latency)
        qos_satisfied == EmbbQosSatisfied(latency, throughput, drop_rate, jitter)
        result == [packet_id |-> packet.packet_id, latency |-> latency,
                   throughput |-> throughput, drop_rate |-> drop_rate,
                   jitter |-> jitter, qos_satisfied |-> qos_satisfied,
                   priority |-> packet.priority, queue_length |-> Len(e1.queue)]
    IN  IF ~enq.ok
        THEN [engine |-> e1, results |-> results, raised |-> FALSE]
        ELSE [engine |-> [e1 EXCEPT !.qos_violations = IF qos_satisfied THEN @ ELSE @ + 1,
                                    !.processed_packets = @ + 1,
                                    !.last_latency = latency,
                                    !.latency_jitter = jitter],
              results |-> Append(results, result), raised |-> FALSE]

\* one iteration of the for loop of process_batch: [engine, results]
EmbbProcessPacket(e, results, packet, r) ==
    EmbbProcessEnqueued(EmbbEnqueuePacket(e, packet), results, packet, r)

\* the for loop of process_batch from packet i on; done = [engine, results]
\* after the packets before i
RECURSIVE EmbbProcessLoop(_, _, _, _)
EmbbProcessLoop(done, packets, rnd, i) ==
    IF i > Len(packets) \/ done.raised THEN done
    ELSE EmbbProcessLoop(EmbbProcessPacket(done.engine, done.results, packets[i], rnd[i]),
                         packets, rnd, i + 1)

\* the batch_stats dict process_batch builds after its loop
EmbbBatchStats(done) ==
    [slice_type |-> "embb",
     success_rate |-> SuccessRate(done.engine),
     qos_compliance_rate |-> QosComplianceRate(done.engine),
     packets_processed |-> Len(done.results),
     packets_dropped |-> done.engine.dropped_packets,
     total_processed |-> done.engine.processed_packets,
     qos_violations |-> done.engine.qos_violations,
     queue_length |-> Len(done.engine.queue),
     detailed_results |-> done.results]

\* the BatchResult process_batch returns after its loop: [engine, stats]
EmbbBatchResult(done) ==
    Appended(done.engine, EmbbBatchStats(done), EmbbBatchStats(done))

EmbbAnswer(done) == Answer(done, EmbbBatchResult(done))

\* process_batch, called by the endpoint: [engine, stats]
EmbbProcessBatch(e, packets, rnd) ==
    EmbbAnswer(EmbbProcessLoop([engine |-> e, results |-> <<>>, raised |-> FALSE],
                               packets, rnd, 1))

-----------------------------------------------------------------------------
(* URLLC engine: src/slices/urllc/main.py *)

URLLC_CONFIG ==
    [max_latency |-> 100, min_throughput |-> 50, max_drop_rate |-> 10,
     max_jitter |-> 50, queue_size |-> QueueSize]

\* URLLCPriorityQueue(max_size): the heap is kept as the sequence of its
\* entries in the order heappop returns them, ascending in (priority, counter)
URLLCPriorityQueue(max_size) == [heap |-> <<>>, max_size |-> max_size, counter |-> 0]

URLLCQoSEngine ==
    [slice_type |-> "urllc",
     priority_queue |-> URLLCPriorityQueue(URLLC_CONFIG.queue_size),
     processed_packets |-> 0, dropped_packets |-> 0, retransmitted_packets |-> 0,
     qos_violations |-> 0, last_latency |-> 0, redundancy_cache |-> <<>>,
     metrics_history |-> <<>>]

\* packets the /process endpoint builds: size in 50..300, priority in 8..10;
\* the endpoint numbers the packets of every request from urllc_0
UrllcPackets ==
    {[packet_id |-> "urllc_0", size |-> 50, priority |-> 8],
     [packet_id |-> "urllc_0", size |-> 300, priority |-> 10],
     [packet_id |-> "urllc_1", size |-> 300, priority |-> 10]}

\* lat = base latency + propagation (2.5..9 ms)
UrllcSamples ==
    {[lat |-> 25, bw |-> 150, dr |-> 1],
     [lat |-> 90, bw |-> 50, dr |-> 5]}

\* the capacity test of push, off by one
UrllcHeapFullOffByOne(pq) == Len(pq.heap) > pq.max_size

UrllcHeapFull(pq) == Len(pq.heap) >= pq.max_size

\* the order of heap entries with the counter compared the other way round
HeapBeforeLifo(a, b) ==
    \/ a.priority < b.priority
    \/ a.priority = b.priority /\ a.counter > b.counter

\* position at which heappush's entry is popped: after every entry that
\* compares smaller (the counter of a new entry is the largest so far)
HeapBefore(a, b) ==
    \/ a.priority < b.priority
    \/ a.priority = b.priority /\ a.counter < b.counter

HeapInsert(heap, entry) ==
    LET k == Cardinality({i \in 1..Len(heap) : HeapBefore(heap[i], entry)})
    IN  SubSeq(heap, 1, k) \o <<entry>> \o SubSeq(heap, k + 1, Len(heap))

\* URLLCPriorityQueue.push: [pq, ok]; ok = FALSE is the OverflowError
UrllcPush(pq, packet) ==
    IF UrllcHeapFull(pq)
    THEN [pq |-> pq, ok |-> FALSE]
    ELSE [pq |-> [pq EXCEPT !.heap = HeapInsert(@, [priority |-> -packet.priority,
                                                     counter |-> pq.counter,
                                                     packet |-> packet]),
                            !.counter = @ + 1],
          ok |-> TRUE]

\* URLLCPriorityQueue.pop on a heap that is not empty: [pq, packet]
UrllcPop(pq) ==
    [pq |-> [pq EXCEPT !.heap = Tail(@)], packet |-> Head(pq.heap).packet]

\* redundancy_cache[packet_id] = packet
CachePut(cache, packet_id, packet) ==
    [k \in DOMAIN cache \cup {packet_id} |->
        IF k = packet_id THEN packet ELSE cache[k]]

\* enqueue_packet with an except branch that does not count the drop
UrllcEnqueuePacketUncounted(e, packet) ==
    IF ~UrllcHeapFull(e.priority_queue)
    THEN [engine |-> [e EXCEPT !.priority_queue = UrllcPush(@, packet).pq,
                               !.redundancy_cache = CachePut(@, packet.packet_id, packet)],
          ok |-> TRUE]
    ELSE [engine |-> e, ok |-> FALSE]

\* enqueue_packet: [engine, ok]
UrllcEnqueuePacket(e, packet) ==
    IF ~UrllcHeapFull(e.priority_queue)
    THEN [engine |-> [e EXCEPT !.priority_queue = UrllcPush(@, packet).pq,
                               !.redundancy_cache = CachePut(@, packet.packet_id, packet)],
          ok |-> TRUE]
    ELSE [engine |-> [e EXCEPT !.dropped_packets = @ + 1], ok |-> FALSE]

\* _handle_retransmission: the engine afterwards
UrllcHandleRetransmission(e, packet) ==
    IF packet.packet_id \in DOMAIN e.redundancy_cache
    THEN [e EXCEPT !.priority_queue =
                       UrllcPush(@, e.redundancy_cache[packet.packet_id]).pq]
    ELSE e

UrllcCalculateUltraLowLatency(e, r) ==
    Min(r.lat + (Len(e.priority_queue.heap) * 40) \div URLLC_CONFIG.queue_size,
        (URLLC_CONFIG.max_latency * 15) \div 10)

UrllcCalculateThroughput(e, packet_size, r) ==
    CalculateThroughput(e.last_latency, packet_size, r.bw, 200)

UrllcCalculateUltraReliableDropRate(e, r) ==
    Min((r.dr * (URLLC_CONFIG.queue_size + Len(e.priority_queue.heap)))
            \div URLLC_CONFIG.queue_size, 20)

UrllcCalculateJitter(e, current_latency) ==
    CalculateJitter(e.last_latency, current_latency, 100)

UrllcQosSatisfied(latency, throughput, drop_rate, jitter) ==
    /\ latency <= URLLC_CONFIG.max_latency
    /\ throughput >= URLLC_CONFIG.min_throughput
    /\ drop_rate <= URLLC_CONFIG.max_drop_rate
    /\ jitter <= URLLC_CONFIG.max_jitter

\* one iteration of the for loop of process_batch after priority_queue.pop
\* returned popped; e is the engine before the pop
UrllcProcessPopped(e, popped, results, r) ==
    LET queued_packet == popped.packet
        e1 == [e EXCEPT !.priority_queue = popped.pq]
        latency == UrllcCalculateUltraLowLatency(e1, r)
        throughput == UrllcCalculateThroughput(e1, queued_packet.size, r)
        drop_rate == UrllcCalculateUltraReliableDropRate(e1, r)
        jitter == UrllcCalculateJitter(e1, latency)
        utilization == Len(e1.priority_queue.heap)
        qos_satisfied == UrllcQosSatisfied(latency, throughput, drop_rate, jitter)
        e2 == IF qos_satisfied THEN e1
              ELSE [UrllcHandleRetransmission(e1, queued_packet)
                        EXCEPT !.retransmitted_packets = @ + 1,
                               !.qos_violations = @ + 1]
        result == [packet_id |-> queued_packet.packet_id, latency |-> latency,
                   throughput |-> throughput, drop_rate |-> drop_rate,
                   jitter |-> jitter, qos_satisfied |-> qos_satisfied,
                   priority |-> queued_packet.priority,
                   queue_length |-> utilization,
                   retransmitted |-> ~qos_satisfied]
    IN  [engine |-> [e2 EXCEPT !.processed_packets = @ + 1,
                               !.last_latency = latency],
         results |-> Append(results, result), raised |-> FALSE]

\* one iteration of the for loop of process_batch after its enqueue_packet
\* call returned enq; the heap is not empty after a push
UrllcProcessEnqueued(enq, results, r) ==
    IF ~enq.ok
    THEN [engine |-> enq.engine, results |-> results, raised |-> FALSE]
    ELSE UrllcProcessPopped(enq.engine, UrllcPop(enq.engine.priority_queue), results, r)

\* one iteration of the for loop of process_batch: [engine, results]
UrllcProcessPacket(e, results, packet, r) ==
    UrllcProcessEnqueued(UrllcEnqueuePacket(e, packet), results, r)

\* the for loop of process_batch from packet i on; done = [engine, results]
\* after the packets before i
RECURSIVE UrllcProcessLoop(_, _, _, _)
UrllcProcessLoop(done, packets, rnd, i) ==
    IF i > Len(packets) \/ done.raised THEN done
    ELSE UrllcProcessLoop(UrllcProcessPacket(done.engine, done.results, packets[i], rnd[i]),
                          packets, rnd, i + 1)

\* the batch_stats dict process_batch builds after its loop
UrllcBatchStats(done) ==
    [slice_type |-> "urllc",
     reliability_index |-> SuccessRate(done.engine),
     qos_compliance_rate |-> QosComplianceRate(done.engine),
     packets_processed |-> Len(done.results),
     packets_dropped |-> done.engine.dropped_packets,
     packets_retransmitted |-> done.engine.retransmitted_packets,
     total_processed |-> done.engine.processed_packets,
     qos_violations |-> done.engine.qos_violations,
     queue_length |-> Len(done.engine.priority_queue.heap),
     detailed_results |-> done.results]

\* the BatchResult process_batch returns after its loop: [engine, stats]
UrllcBatchResult(done) ==
    Appended(done.engine, UrllcBatchStats(done), UrllcBatchStats(done))

UrllcAnswer(done) == Answer(done, UrllcBatchResult(done))

\* process_batch: [engine, stats]
UrllcProcessBatch(e, packets, rnd) ==
    UrllcAnswer(UrllcProcessLoop([engine |-> e, results |-> <<>>, raised |-> FALSE],
                                 packets, rnd, 1))

-----------------------------------------------------------------------------
(* mMTC engine: src/slices/mmtc/main.py *)

MMTC_CONFIG ==
    [max_latency |-> 10000, min_throughput |-> 10, max_drop_rate |-> 20000,
     max_jitter |-> 2000, queue_size |-> QueueSize, device_limit |-> DeviceLimit]

\* the values of device["type"]
DeviceTypes == {"sensor", "actuator", "gateway"}

\* DeviceRegistry(max_devices): devices holds the registered device ids and
\* types the "type" of each
DeviceRegistry(max_devices) ==
    [devices |-> {}, types |-> <<>>, max_devices |-> max_devices]

\* an empty defaultdict(int)
NoCounts == <<>>

\* counts[key] += 1 on a defaultdict(int)
Increment(counts, key) ==
    [k \in DOMAIN counts \cup {key} |->
        IF k = key THEN (IF key \in DOMAIN counts THEN counts[key] ELSE 0) + 1
        ELSE counts[k]]

\* the device_distribution of a stored batch_stats: the engine's own dict
\* object, not a copy of it
SelfDeviceDistribution == [ref |-> "self.device_distribution"]

MMTCQoSEngine ==
    [slice_type |-> "mmtc", queue |-> <<>>,
     device_registry |-> DeviceRegistry(MMTC_CONFIG.device_limit),
     processed_packets |-> 0, dropped_packets |-> 0, aggregated_packets |-> 0,
     qos_violations |-> 0, last_latency |-> 0, metrics_history |-> <<>>,
     device_distribution |-> NoCounts]

\* packets the /process endpoint builds: a random device id, size in 100..500
MmtcPackets ==
    {[packet_id |-> "mmtc_0", device_id |-> "device_0", size |-> 100],
     [packet_id |-> "mmtc_1", device_id |-> "device_0", size |-> 500],
     [packet_id |-> "mmtc_1", device_id |-> "device_1", size |-> 100]}

\* lat = base latency + propagation (150..800 ms); type is the draw of
\* random.choice that register_or_get_device makes for an unseen device
MmtcSamples ==
    {[lat |-> 1500, bw |-> 100, dr |-> 5000, type |-> "sensor"],
     [lat |-> 8000, bw |-> 10, dr |-> 15000, type |-> "gateway"]}

\* self.devices[device_id] = {"id": device_id, "type": type, ...} for a
\* device_id not in self.devices
Registered(reg, device_id, type) ==
    IF device_id \in reg.devices THEN reg
    ELSE [reg EXCEPT !.devices = @ \cup {device_id},
                     !.types = [d \in DOMAIN @ \cup {device_id} |->
                                  IF d = device_id THEN type ELSE @[d]]]

\* register_or_get_device without the test of max_devices
RegisterOrGetDeviceUnbounded(reg, device_id, type) ==
    [registry |-> Registered(reg, device_id, type), ok |-> TRUE]

\* DeviceRegistry.register_or_get_device: [registry, ok]; ok = FALSE is the
\* OverflowError, and registry.types[device_id] the "type" of the device
\* returned
RegisterOrGetDevice(reg, device_id, type) ==
    IF device_id \notin reg.devices /\ Cardinality(reg.devices) >= reg.max_devices
    THEN [registry |-> reg, ok |-> FALSE]
    ELSE [registry |-> Registered(reg, device_id, type), ok |-> TRUE]

RECURSIVE SumSizes(_)
SumSizes(ps) == IF ps = <<>> THEN 0 ELSE Head(ps).size + SumSizes(Tail(ps))

\* the keys of device_packets in insertion order: device ids by first occurrence
RECURSIVE DeviceOrder(_, _)
DeviceOrder(packets, seen) ==
    IF packets = <<>> THEN <<>>
    ELSE IF Head(packets).device_id \in seen
         THEN DeviceOrder(Tail(packets), seen)
         ELSE <<Head(packets).device_id>>
                  \o DeviceOrder(Tail(packets), seen \cup {Head(packets).device_id})

PacketsOfDevice(packets, device_id) ==
    SelectSeq(packets, LAMBDA p : p.device_id = device_id)

\* the entry _aggregate_packets_by_device emits for one device
AggregatedEntry(device_id, device_packet_list) ==
    IF Len(device_packet_list) > 1
    THEN [packet_id |-> device_packet_list[1].packet_id,
          device_id |-> device_id,
          size |-> SumSizes(device_packet_list),
          count |-> Len(device_packet_list),
          aggregated |-> TRUE]
    ELSE device_packet_list[1]

\* _aggregate_packets_by_device: [engine, packets]
MmtcAggregatePacketsByDevice(e, packets) ==
    LET order == DeviceOrder(packets, {})
    IN  [engine |-> [e EXCEPT !.aggregated_packets = @ + Len(packets) - Len(order)],
         packets |-> [k \in 1..Len(order) |->
                         AggregatedEntry(order[k], PacketsOfDevice(packets, order[k]))]]

\* the iterations of the for loop of process_batch over packets: one for
\* each device of the batch
MmtcIterations(packets) == Len(DeviceOrder(packets, {}))

MmtcQueueFull(e) == Len(e.queue) >= MMTC_CONFIG.queue_size

MmtcCalculateRelaxedLatency(e, r) ==
    Min(r.lat + (Len(e.queue) * 4000) \div MMTC_CONFIG.queue_size,
        (MMTC_CONFIG.max_latency * 15) \div 10)

MmtcCalculateThroughput(e, packet_size, r) ==
    CalculateThroughput(e.last_latency, packet_size, r.bw, 150)

MmtcCalculateDropRate(e, r) ==
    Min((r.dr * (MMTC_CONFIG.queue_size + 3 * Len(e.queue))) \div MMTC_CONFIG.queue_size,
        50000)

MmtcCalculateJitter(e, current_latency) ==
    CalculateJitter(e.last_latency, current_latency, 3000)

MmtcQosSatisfied(latency, throughput, drop_rate) ==
    /\ latency <= MMTC_CONFIG.max_latency
    /\ throughput >= MMTC_CONFIG.min_throughput
    /\ drop_rate <= MMTC_CONFIG.max_drop_rate

\* the OverflowError of register_or_get_device leaving process_batch
MmtcDeviceLimitUncaught(e, results, contacted) ==
    [engine |-> e, results |-> results, contacted |-> contacted, raised |-> TRUE]

\* except OverflowError: the entry is counted as dropped and the loop
\* continues
MmtcDeviceLimitReached(e, results, contacted) ==
    [engine |-> [e EXCEPT !.dropped_packets = @ + 1],
     results |-> results, contacted |-> contacted, raised |-> FALSE]

\* one iteration of the for loop of process_batch after
\* register_or_get_device returned reg: [engine, results, contacted, raised]
MmtcProcessRegistered(e, reg, results, contacted, packet, r) ==
    LET e0 == [e EXCEPT !.device_registry = reg.registry]
        e1 == [e0 EXCEPT !.queue = DequeAppend(@, packet, MMTC_CONFIG.queue_size)]
        latency == MmtcCalculateRelaxedLatency(e1, r)
        throughput == MmtcCalculateThroughput(e1, packet.size, r)
        drop_rate == MmtcCalculateDropRate(e1, r)
        jitter == MmtcCalculateJitter(e1, latency)
        qos_satisfied == MmtcQosSatisfied(latency, throughput, drop_rate)
        result == [packet_id |-> packet.packet_id, device_id |-> packet.device_id,
                   latency |-> latency, throughput |-> throughput,
                   drop_rate |-> drop_rate, jitter |-> jitter,
                   qos_satisfied |-> qos_satisfied, queue_length |-> Len(e1.queue)]
        device_type == reg.registry.types[packet.device_id]
    IN  IF ~reg.ok
        THEN MmtcDeviceLimitReached(e, results, contacted)
        ELSE IF MmtcQueueFull(e0)
        THEN [engine |-> [e0 EXCEPT !.dropped_packets = @ + 1],
              results |-> results, contacted |-> contacted \cup {packet.device_id},
              raised |-> FALSE]
        ELSE [engine |-> [e1 EXCEPT !.qos_violations = IF qos_satisfied THEN @ ELSE @ + 1,
                                    !.processed_packets = @ + 1,
                                    !.device_distribution = Increment(@, device_type),
                                    !.last_latency = latency],
              results |-> Append(results, result),
              contacted |-> contacted \cup {packet.device_id}, raised |-> FALSE]

\* one iteration of the for loop of process_batch: [engine, results, contacted]
MmtcProcessPacket(e, results, contacted, packet, r) ==
    MmtcProcessRegistered(e, RegisterOrGetDevice(e.device_registry, packet.device_id,
                                                 r.type),
                          results, contacted, packet, r)

\* the for loop of process_batch from packet i on; done = [engine, results,
\* contacted] after the packets before i
RECURSIVE MmtcProcessLoop(_, _, _, _)
MmtcProcessLoop(done, packets, rnd, i) ==
    IF i > Len(packets) \/ done.raised THEN done
    ELSE MmtcProcessLoop(MmtcProcessPacket(done.engine, done.results, done.contacted,
                                           packets[i], rnd[i]),
                         packets, rnd, i + 1)

\* the batch_stats dict process_batch builds after its loop, with
\* device_distribution as the caller's response carries it
MmtcBatchStats(done) ==
    [slice_type |-> "mmtc",
     success_rate |-> SuccessRate(done.engine),
     qos_compliance_rate |-> QosComplianceRate(done.engine),
     packets_processed |-> Len(done.results),
     packets_dropped |-> done.engine.dropped_packets,
     packets_aggregated |-> done.engine.aggregated_packets,
     total_processed |-> done.engine.processed_packets,
     qos_violations |-> done.engine.qos_violations,
     queue_length |-> Len(done.engine.queue),
     active_devices |-> Cardinality(done.engine.device_registry.devices),
     devices_in_batch |-> Cardinality(done.contacted),
     device_distribution |-> done.engine.device_distribution,
     detailed_results |-> done.results]

\* the BatchResult process_batch returns after its loop: [engine, stats];
\* the dict appended to metrics_history has the engine's device_distribution
\* object as its "device_distribution"
MmtcBatchResult(done) ==
    Appended(done.engine, MmtcBatchStats(done),
             [MmtcBatchStats(done) EXCEPT !.device_distribution = SelfDeviceDistribution])

MmtcAnswer(done) == Answer(done, MmtcBatchResult(done))

\* process_batch after _aggregate_packets_by_device returned agg
MmtcProcessAggregated(agg, rnd) ==
    MmtcAnswer(MmtcProcessLoop([engine |-> agg.engine, results |-> <<>>,
                                contacted |-> {}, raised |-> FALSE],
                               agg.packets, rnd, 1))

\* process_batch: [engine, stats]
MmtcProcessBatch(e, packets, rnd) ==
    MmtcProcessAggregated(MmtcAggregatePacketsByDevice(e, packets), rnd)

-----------------------------------------------------------------------------
(* Scheduler: src/scheduler/generator.py *)
(* Multipliers, percentages and ratios are in hundredths.                  *)

\* the keys of TrafficPattern.PATTERNS
PatternNames ==
    {"constant", "linear_increase", "burst", "wave", "poisson", "gaussian"}

\* 0.5 * sin(2 * pi * t / 60) at the quarter periods
HalfSine(t) ==
    CASE t % 60 = 0 -> 0
      [] t % 60 = 15 -> 50
      [] t % 60 = 30 -> 0
      [] t % 60 = 45 -> -50

\* TrafficPattern.PATTERNS[name](t); draw holds the values np.random returns
PATTERNS(name, t, draw) ==
    CASE name = "constant" -> 100
      [] name = "linear_increase" -> Min(100, (t * 100) \div 30)
      [] name = "burst" -> IF t % 10 < 2 THEN 150 ELSE 70
      [] name = "wave" -> 100 + HalfSine(t)
      [] name = "poisson" -> Max(10, draw.poisson * 20)
      [] name = "gaussian" -> Max(10, draw.normal)

\* PATTERNS.get(pattern_name, PATTERNS["burst"])
PatternsGetBurst(pattern_name) ==
    IF pattern_name \in PatternNames THEN pattern_name ELSE "burst"

\* PATTERNS.get(pattern_name, PATTERNS["constant"]): the name of the pattern
\* whose function is used
PatternsGet(pattern_name) ==
    IF pattern_name \in PatternNames THEN pattern_name ELSE "constant"

\* TrafficPattern.get_multiplier
GetMultiplier(pattern_name, elapsed_time, draw) ==
    Max(10, PATTERNS(PatternsGet(pattern_name), elapsed_time, draw))

\* SliceProfile.PROFILES in the order of the dict
PROFILES ==
    <<[slice_type |-> "embb", packet_size_range |-> <<500, 2000>>, percentage |-> 40],
      [slice_type |-> "urllc", packet_size_range |-> <<50, 300>>, percentage |-> 30],
      [slice_type |-> "mmtc", packet_size_range |-> <<100, 500>>, percentage |-> 30]>>

\* the keys of SliceProfile.PROFILES
ProfileNames == {PROFILES[k].slice_type : k \in DOMAIN PROFILES}

\* SliceProfile.PROFILES[slice_type]
Profile(slice_type) ==
    CHOOSE profile \in {PROFILES[k] : k \in DOMAIN PROFILES} :
        profile.slice_type = slice_type

\* int(x) of a product given in hundredths: truncation towards zero
IntOfHundredths(x) == IF x >= 0 THEN x \div 100 ELSE -((-x) \div 100)

\* f"pkt_{packet_counter:09d}": the decimal digits, zero-padded to nine
PacketId(packet_counter) ==
    [k \in 1..9 |-> (packet_counter \div (10 ^ (9 - k))) % 10]

\* AdvancedTrafficGenerator.__init__
AdvancedTrafficGenerator ==
    [packet_counter |-> 0,
     generation_history |-> <<>>,
     slice_stats |-> [s \in ProfileNames |-> [generated |-> 0, total_size |-> 0]]]

\* the module-level traffic_generator of a process that is not the scheduler
NoGenerator == [packet_counter |-> -1]

\* no call of the generator has returned yet
NoResponse == [call |-> "none"]

\* what the random module returns during one request: the count
\* np.random.poisson(5) gives, the normal deviate in hundredths, and whether
\* random.randint gives the upper or the lower end of packet_size_range
Draws ==
    {[poisson |-> 5, normal |-> -20, large |-> FALSE],
     [poisson |-> 8, normal |-> 130, large |-> TRUE]}

\* _create_packet: the packet made while packet_counter is n
CreatePacket(n, slice_type, profile, draw) ==
    [packet_id |-> PacketId(n), slice_type |-> slice_type,
     size |-> profile.packet_size_range[IF draw.large THEN 2 ELSE 1]]

\* _generate_slice_packets: [generator, packets]; range(volume) is empty for
\* a volume below 1
GenerateSlicePackets(gen, slice_type, profile, volume, draw) ==
    [generator |-> [gen EXCEPT !.packet_counter = @ + Max(volume, 0)],
     packets |-> [i \in 1..Max(volume, 0) |->
                     CreatePacket(gen.packet_counter + i - 1, slice_type, profile, draw)]]

\* sum(p["size"] for p in packets)
RECURSIVE TotalSize(_)
TotalSize(packets) ==
    IF packets = <<>> THEN 0 ELSE Head(packets).size + TotalSize(Tail(packets))

\* the body of the for loop of generate_traffic_batch after
\* _generate_slice_packets returned made: [generator, packets_by_slice]
SliceGenerated(made, packets_by_slice, slice_type) ==
    [generator |->
        [made.generator EXCEPT
            !.slice_stats[slice_type].generated = @ + Len(made.packets),
            !.slice_stats[slice_type].total_size = @ + TotalSize(made.packets)],
     packets_by_slice |-> [packets_by_slice EXCEPT ![slice_type] = made.packets]]

\* slice_volume = round(adjusted_volume * profile["percentage"])
SliceVolumeRounded(adjusted_volume, profile) ==
    (adjusted_volume * profile.percentage + 50) \div 100

\* slice_volume = int(adjusted_volume * profile["percentage"])
SliceVolume(adjusted_volume, profile) ==
    IntOfHundredths(adjusted_volume * profile.percentage)

\* the for loop of generate_traffic_batch from the k-th profile on
RECURSIVE GenerateSlices(_, _, _, _)
GenerateSlices(done, adjusted_volume, draw, k) ==
    IF k > Len(PROFILES) THEN done
    ELSE GenerateSlices(
             SliceGenerated(
                 GenerateSlicePackets(done.generator, PROFILES[k].slice_type, PROFILES[k],
                                      SliceVolume(adjusted_volume, PROFILES[k]), draw),
                 done.packets_by_slice, PROFILES[k].slice_type),
             adjusted_volume, draw, k + 1)

\* {k: len(v) for k, v in packets_by_slice.items()}
Lengths(packets_by_slice) ==
    [s \in DOMAIN packets_by_slice |-> Len(packets_by_slice[s])]

\* the end of generate_traffic_batch: the summary is appended to
\* generation_history and packets_by_slice returned
BatchGenerated(done, adjusted_volume) ==
    [generator |->
        [done.generator EXCEPT
            !.generation_history =
                DequeAppend(@, [total_packets |-> adjusted_volume,
                                by_slice |-> Lengths(done.packets_by_slice)],
                            HistorySize)],
     packets_by_slice |-> done.packets_by_slice]

\* adjusted_volume = int(total_volume * pattern_multiplier)
AdjustedVolume(total_volume, pattern_multiplier) ==
    IntOfHundredths(total_volume * pattern_multiplier)

\* generate_traffic_batch after adjusted_volume is computed
GenerateAdjusted(gen, adjusted_volume, draw) ==
    BatchGenerated(GenerateSlices([generator |-> gen,
                                   packets_by_slice |-> [s \in ProfileNames |-> <<>>]],
                                  adjusted_volume, draw, 1),
                   adjusted_volume)

\* AdvancedTrafficGenerator.generate_traffic_batch: [generator, packets_by_slice]
GenerateTrafficBatch(gen, total_volume, pattern, elapsed_time, draw) ==
    GenerateAdjusted(gen,
                     AdjustedVolume(total_volume,
                                    GetMultiplier(pattern, elapsed_time, draw)),
                     draw)

-----------------------------------------------------------------------------
(* Backend: src/backend/app.py *)

\* SimulationStatus
INITIALIZED == "initialized"
RUNNING == "running"
STOPPED == "stopped"
COMPLETED == "completed"
ERROR == "error"

SimulationStatus == {INITIALIZED, RUNNING, STOPPED, COMPLETED, ERROR}

Slices == <<"embb", "urllc", "mmtc">>
SliceNames == {Slices[k] : k \in DOMAIN Slices}

\* Simulation.__init__
Simulation(config) ==
    [config |-> config, status |-> INITIALIZED,
     total_traffic_generated |-> 0, total_packets_processed |-> 0,
     total_packets_dropped |-> 0,
     slice_metrics |-> [s \in SliceNames |-> <<>>]]

\* the ids f"sim_{uuid.uuid4().hex[:12]}" that create_simulation draws
SimulationIds == {"sim_a"}

\* the configurations a create request carries: duration in time units of
\* one tick sleep, traffic_volume in packets
Configs == {[traffic_volume |-> 6, duration |-> 2]}

\* what one tick takes: the work of the tick and the sleep of 1 after it
TickTimes == {1, 2}

\* conn_manager = ConnectionManager(): active_connections is an empty
\* defaultdict(list)
ConnectionManager == [active_connections |-> <<>>]

\* the conn_manager of a process that is not the backend
NoManager == [active_connections |-> "none"]

\* no broadcast has ended
NoBroadcast == [outcome |-> "none"]

\* process_slice_traffic returned None
NoneResult == [call |-> "none"]

\* the task asyncio.create_task(run_simulation_loop(simulation_id, db)) makes
NewTask(sim_id) ==
    [pc |-> "created", sim |-> sim_id, elapsed |-> 0, results |-> <<>>]

\* the tasks created so far, without their multiplicity; asyncio keeps the
\* tasks apart but nothing in the program tells two tasks in the same state
\* apart
Tasks == BagToSet(tasks)

\* the tasks after task has become next
Moved(task, next) == (tasks (-) SetToBag({task})) (+) SetToBag({next})

\* a task that has returned keeps nothing of its frame
Returned(task, pc) == [NewTask(task.sim) EXCEPT !.pc = pc]

\* the tasks of a run that have not returned
ActiveTasks(sim_id) ==
    LET active == {task \in Tasks : task.sim = sim_id /\ task.pc \notin {"done", "faulted"}}
    IN  [task \in active |-> tasks[task]]

\* traffic_per_cycle = int(traffic_volume / duration)
TrafficPerCycle(config) == config.traffic_volume \div config.duration

\* the packet_count of each of the three process_slice_traffic calls
PacketCount(config) == TrafficPerCycle(config) \div 3

\* the while condition of run_simulation_loop
LoopCondition(task, simulation) ==
    /\ task.elapsed < simulation.config.duration
    /\ simulation.status = RUNNING

\* packet_count: int = 100 of the URLLC /process endpoint, a query parameter
UrllcDefaultPacketCount == 100

\* the packets the /process endpoint of a slice service builds for a request
\* whose JSON body has packet_count: the eMBB and mMTC services read it from
\* the body, the URLLC service reads a query parameter the backend never
\* sends and uses its default
BatchSize(slice_type, packet_count) ==
    IF slice_type = "urllc" THEN UrllcDefaultPacketCount ELSE packet_count

\* the JSON a slice service answers with status 200: the packets_processed
\* and packets_dropped of its batch_stats, with slice_type set by the caller.
\* The URLLC service processes its own default packet_count, more than the
\* packets the other two are sent. batch_size is history: the length of the
\* list handed to process_batch
SliceResponses(slice_type, packet_count) ==
    {[slice_type |-> slice_type,
      packets_processed |-> IF slice_type = "urllc" THEN 2 ELSE 1,
      packets_dropped |-> 1,
      batch_size |-> BatchSize(slice_type, packet_count)]}

\* what process_slice_traffic returns for a slice: None when the call
\* raised, timed out or was not answered 200, as the eMBB and mMTC services do
\* for a packet_count below 1 (the URLLC service reads no packet_count from
\* the body of the request)
SliceOutcomes(slice_type, packet_count) ==
    IF slice_type \in {"embb", "mmtc"} /\ packet_count < 1
    THEN {NoneResult}
    ELSE SliceResponses(slice_type, packet_count) \cup {NoneResult}

\* what asyncio.gather returns: one outcome per call, in the order of the calls
GatherResults(packet_count) ==
    {results \in [DOMAIN Slices ->
                     UNION {SliceOutcomes(s, packet_count) : s \in SliceNames}] :
        \A k \in DOMAIN Slices : results[k] \in SliceOutcomes(Slices[k], packet_count)}

\* the body of the for loop, assigning the counts of the result to the totals
MergeResultOverwrite(simulation, result) ==
    IF result = NoneResult
    THEN simulation
    ELSE [simulation EXCEPT
             !.total_packets_processed = result.packets_processed,
             !.total_packets_dropped = result.packets_dropped,
             !.slice_metrics[result.slice_type] = result]

\* the body of the for loop over results for one result
MergeResult(simulation, result) ==
    IF result = NoneResult
    THEN simulation
    ELSE [simulation EXCEPT
             !.total_packets_processed = @ + result.packets_processed,
             !.total_packets_dropped = @ + result.packets_dropped,
             !.slice_metrics[result.slice_type] = result]

\* the for loop over results, left at the first call that returned None
RECURSIVE MergeResultsUntilNone(_, _, _)
MergeResultsUntilNone(simulation, results, k) ==
    IF k > Len(results) \/ results[k] = NoneResult THEN simulation
    ELSE MergeResultsUntilNone(MergeResult(simulation, results[k]), results, k + 1)

\* the for loop over results
RECURSIVE MergeResults(_, _, _)
MergeResults(simulation, results, k) ==
    IF k > Len(results) THEN simulation
    ELSE MergeResults(MergeResult(simulation, results[k]), results, k + 1)

-----------------------------------------------------------------------------
(* Initial states *)

NoStats == [slice_type |-> "none"]

\* no run has called the service yet
NoCaller == [engine |-> NoStats, stats |-> NoStats, caller |-> "none"]

\* a slice service after start-up: its engine is one of the three kinds and
\* no batch has been processed; the backend plays no part
EngineInit ==
    /\ qos_engine \in {EMBBQoSEngine, URLLCQoSEngine, MMTCQoSEngine}
    /\ batch_stats = NoStats
    /\ simulations = <<>>
    /\ tasks = EmptyBag
    /\ stop_seen = {}
    /\ calls = <<>>
    /\ solo = NoCaller
    /\ traffic_generator = NoGenerator
    /\ generated = NoResponse
    /\ conn_manager = NoManager
    /\ websockets = <<>>
    /\ broadcasts = <<>>
    /\ snapshots = 0
    /\ published = NoBroadcast

\* the backend after start-up: sim_manager holds no run and no task; the
\* slice services are seen through their responses only
RunInit ==
    /\ simulations = <<>>
    /\ tasks = EmptyBag
    /\ stop_seen = {}
    /\ qos_engine = EMBBQoSEngine
    /\ batch_stats = NoStats
    /\ calls = <<>>
    /\ solo = NoCaller
    /\ traffic_generator = NoGenerator
    /\ generated = NoResponse
    /\ conn_manager = ConnectionManager
    /\ websockets = <<>>
    /\ broadcasts = <<>>
    /\ snapshots = 0
    /\ published = NoBroadcast

-----------------------------------------------------------------------------
(* Slice service endpoints *)

Submitted(e) == e.processed_packets + e.dropped_packets

\* the batches a /process call hands to process_batch: the endpoints answer
\* a packet_count below 1 with HTTP 400 before any packet is made
EmbbBatches == SeqsUpTo(EmbbPackets, MaxBatch) \ {<<>>}
UrllcBatches == SeqsUpTo(UrllcPackets, MaxBatch) \ {<<>>}
MmtcBatches == SeqsUpTo(MmtcPackets, MaxBatch) \ {<<>>}

\* a /process call returns the BatchResult; the engine is as the call left it
Returns(out) ==
    /\ qos_engine' = out.engine
    /\ batch_stats' = out.stats

\* POST /process of the eMBB service
EmbbProcessPackets ==
    /\ qos_engine.slice_type = "embb"
    /\ \E packets \in EmbbBatches :
         /\ Submitted(qos_engine) + Len(packets) <= MaxPackets
         /\ \E rnd \in [1..Len(packets) -> EmbbSamples] :
              Returns(EmbbProcessBatch(qos_engine, packets, rnd))
    /\ UNCHANGED <<calls, solo, run_vars, gen_vars, conn_vars>>

\* POST /reset of the eMBB service
EmbbReset ==
    /\ qos_engine.slice_type = "embb"
    /\ qos_engine' = EMBBQoSEngine
    /\ UNCHANGED <<batch_stats, calls, solo, run_vars, gen_vars, conn_vars>>

\* POST /process of the URLLC service
UrllcProcessPackets ==
    /\ qos_engine.slice_type = "urllc"
    /\ \E packets \in UrllcBatches :
         /\ Submitted(qos_engine) + Len(packets) <= MaxPackets
         /\ \E rnd \in [1..Len(packets) -> UrllcSamples] :
              Returns(UrllcProcessBatch(qos_engine, packets, rnd))
    /\ UNCHANGED <<calls, solo, run_vars, gen_vars, conn_vars>>

\* POST /reset of the URLLC service
UrllcReset ==
    /\ qos_engine.slice_type = "urllc"
    /\ qos_engine' = URLLCQoSEngine
    /\ UNCHANGED <<batch_stats, calls, solo, run_vars, gen_vars, conn_vars>>

\* POST /process of the mMTC service
MmtcProcessPackets ==
    /\ qos_engine.slice_type = "mmtc"
    /\ \E packets \in MmtcBatches :
         /\ Submitted(qos_engine) + qos_engine.aggregated_packets + Len(packets)
                <= MaxPackets
         /\ \E rnd \in [1..MmtcIterations(packets) -> MmtcSamples] :
              Returns(MmtcProcessBatch(qos_engine, packets, rnd))
    /\ UNCHANGED <<calls, solo, run_vars, gen_vars, conn_vars>>

\* POST /reset of the mMTC service
MmtcReset ==
    /\ qos_engine.slice_type = "mmtc"
    /\ qos_engine' = MMTCQoSEngine
    /\ UNCHANGED <<batch_stats, calls, solo, run_vars, gen_vars, conn_vars>>

EngineNext ==
    \/ EmbbProcessPackets
    \/ EmbbReset
    \/ UrllcProcessPackets
    \/ UrllcReset
    \/ MmtcProcessPackets
    \/ MmtcReset

EngineSpec == EngineInit /\ [][EngineNext]_vars

-----------------------------------------------------------------------------
(* The /process handler statement by statement *)

\* the kind-specific parts of a /process call
CallBatches(e) ==
    CASE e.slice_type = "embb" -> EmbbBatches
      [] e.slice_type = "urllc" -> UrllcBatches
      [] e.slice_type = "mmtc" -> MmtcBatches

CallSamples(e) ==
    CASE e.slice_type = "embb" -> EmbbSamples
      [] e.slice_type = "urllc" -> UrllcSamples
      [] e.slice_type = "mmtc" -> MmtcSamples

\* the locals of a process_batch call that is about to run iteration i of
\* its for loop over packets
Frame(packets, i, results, contacted) ==
    [packets |-> packets, i |-> i, results |-> results, contacted |-> contacted]

\* process_batch up to its for loop: [engine, frame]
CallEntered(e, packets) ==
    IF e.slice_type = "mmtc"
    THEN LET agg == MmtcAggregatePacketsByDevice(e, packets)
         IN  [engine |-> agg.engine, frame |-> Frame(agg.packets, 1, <<>>, {})]
    ELSE [engine |-> e, frame |-> Frame(packets, 1, <<>>, {})]

\* iteration frame.i of the for loop, on the engine as it is now:
\* [engine, results, raised] and, for mMTC, contacted
CallIteration(e, frame, r) ==
    CASE e.slice_type = "embb" ->
           EmbbProcessPacket(e, frame.results, frame.packets[frame.i], r)
      [] e.slice_type = "urllc" ->
           UrllcProcessPacket(e, frame.results, frame.packets[frame.i], r)
      [] e.slice_type = "mmtc" ->
           MmtcProcessPacket(e, frame.results, frame.contacted,
                             frame.packets[frame.i], r)

\* the frame after the iteration that left done
FrameAfter(e, frame, done) ==
    Frame(frame.packets, frame.i + 1, done.results,
          IF e.slice_type = "mmtc" THEN done.contacted ELSE frame.contacted)

\* process_batch after its for loop: the BatchResult, [engine, stats]
CallReturned(e, frame) ==
    CASE e.slice_type = "embb" ->
           EmbbBatchResult([engine |-> e, results |-> frame.results])
      [] e.slice_type = "urllc" ->
           UrllcBatchResult([engine |-> e, results |-> frame.results])
      [] e.slice_type = "mmtc" ->
           MmtcBatchResult([engine |-> e, results |-> frame.results,
                            contacted |-> frame.contacted])

\* packets handed to the engine so far
Offered(e) ==
    Submitted(e) + IF e.slice_type = "mmtc" THEN e.aggregated_packets ELSE 0

\* entries the calls in flight have still to iterate over
RECURSIVE Pending(_)
Pending(in_flight) ==
    IF in_flight = <<>> THEN 0
    ELSE Len(Head(in_flight).packets) - Head(in_flight).i + 1
         + Pending(Tail(in_flight))

\* a handler run in a thread pool, as a plain def handler is
HandlerInThreadPool(in_flight) == TRUE

\* process_packets is an async def without an await and uvicorn.run starts
\* one event loop: the loop enters a handler only when no other handler is
\* between its first and its last statement
EventLoopFree(in_flight) == in_flight = <<>>

Without(in_flight, k) ==
    [j \in 1..(Len(in_flight) - 1) |-> IF j < k THEN in_flight[j] ELSE in_flight[j + 1]]

\* the event loop enters process_packets for a request: the packets are made
\* and process_batch runs up to its for loop
EnterCall ==
    /\ EventLoopFree(calls)
    /\ \E packets \in CallBatches(qos_engine) :
         /\ Offered(qos_engine) + Pending(calls) + Len(packets) <= MaxPackets
         /\ qos_engine' = CallEntered(qos_engine, packets).engine
         /\ calls' = Append(calls, CallEntered(qos_engine, packets).frame)
    /\ UNCHANGED <<batch_stats, solo, run_vars, gen_vars, conn_vars>>

\* the iteration of the call entered k-th has left done: the loop goes on,
\* or an exception ends the call and the endpoint answers HTTP 400
Iterated(k, done) ==
    /\ qos_engine' = done.engine
    /\ IF done.raised
       THEN /\ calls' = Without(calls, k)
            /\ batch_stats' = HTTP_400
       ELSE /\ calls' = [calls EXCEPT ![k] = FrameAfter(qos_engine, calls[k], done)]
            /\ UNCHANGED batch_stats

\* one iteration of the for loop of the call entered k-th
IterateCall(k) ==
    /\ calls[k].i <= Len(calls[k].packets)
    /\ \E r \in CallSamples(qos_engine) :
         Iterated(k, CallIteration(qos_engine, calls[k], r))
    /\ UNCHANGED <<solo, run_vars, gen_vars, conn_vars>>

\* the call entered k-th leaves its loop, builds batch_stats and returns
ReturnCall(k) ==
    /\ calls[k].i > Len(calls[k].packets)
    /\ Returns(CallReturned(qos_engine, calls[k]))
    /\ calls' = Without(calls, k)
    /\ UNCHANGED <<solo, run_vars, gen_vars, conn_vars>>

ServeNext ==
    \/ EnterCall
    \/ \E k \in DOMAIN calls : IterateCall(k)
    \/ \E k \in DOMAIN calls : ReturnCall(k)

ServeSpec == EngineInit /\ [][ServeNext]_vars

-----------------------------------------------------------------------------
(* One slice service called by the loops of several runs *)

\* the runs whose loops post to the /process endpoint of the service
Callers == {"sim_a", "sim_b"}

\* the run whose responses are compared with those it would get alone
Observed == "sim_a"

\* process_batch of the engine's kind: [engine, stats]
ProcessBatch(e, packets, rnd) ==
    CASE e.slice_type = "embb" -> EmbbProcessBatch(e, packets, rnd)
      [] e.slice_type = "urllc" -> UrllcProcessBatch(e, packets, rnd)
      [] e.slice_type = "mmtc" -> MmtcProcessBatch(e, packets, rnd)

\* the iterations of the for loop of process_batch over packets
Iterations(e, packets) ==
    IF e.slice_type = "mmtc" THEN MmtcIterations(packets) ELSE Len(packets)

\* solo after a call of run: the same packets and draws go to the engine
\* that only the observed run's calls have touched
SoloAfter(run, out) ==
    IF run = Observed
    THEN [engine |-> out.engine, stats |-> out.stats, caller |-> run]
    ELSE [solo EXCEPT !.caller = run]

\* a slice service after start-up, with no call of any run yet
ShareInit ==
    /\ qos_engine \in {EMBBQoSEngine, URLLCQoSEngine, MMTCQoSEngine}
    /\ batch_stats = NoStats
    /\ solo = [engine |-> qos_engine, stats |-> NoStats, caller |-> "none"]
    /\ calls = <<>>
    /\ simulations = <<>>
    /\ tasks = EmptyBag
    /\ stop_seen = {}
    /\ traffic_generator = NoGenerator
    /\ generated = NoResponse
    /\ conn_manager = NoManager
    /\ websockets = <<>>
    /\ broadcasts = <<>>
    /\ snapshots = 0
    /\ published = NoBroadcast

\* process_slice_traffic of a tick of run: POST /process, served from the
\* first to the last statement by the module-level qos_engine
ProcessFor(run) ==
    /\ \E packets \in CallBatches(qos_engine) :
         /\ Offered(qos_engine) + Len(packets) <= MaxPackets
         /\ \E rnd \in [1..Iterations(qos_engine, packets) -> CallSamples(qos_engine)] :
              /\ Returns(ProcessBatch(qos_engine, packets, rnd))
              /\ solo' = SoloAfter(run, ProcessBatch(solo.engine, packets, rnd))
    /\ UNCHANGED <<calls, run_vars, gen_vars, conn_vars>>

ShareNext == \E run \in Callers : ProcessFor(run)

ShareSpec == ShareInit /\ [][ShareNext]_vars

-----------------------------------------------------------------------------
(* Scheduler calls and endpoints *)

\* the qos_engine of a process that is not a slice service
NoEngine == [slice_type |-> "none"]

\* the scheduler after start-up: the slice services and the backend play no
\* part
GenInit ==
    /\ traffic_generator = AdvancedTrafficGenerator
    /\ generated = NoResponse
    /\ qos_engine = NoEngine
    /\ batch_stats = NoStats
    /\ calls = <<>>
    /\ solo = NoCaller
    /\ simulations = <<>>
    /\ tasks = EmptyBag
    /\ stop_seen = {}
    /\ conn_manager = NoManager
    /\ websockets = <<>>
    /\ broadcasts = <<>>
    /\ snapshots = 0
    /\ published = NoBroadcast

\* traffic volumes asked for (100..1000000 in the source, scaled)
Volumes == {4, 10}

\* elapsed times of a pattern, in seconds
ElapsedTimes == {0, 15}

\* pattern names a caller passes: the keys of PATTERNS and one other name
RequestPatterns == PatternNames \cup {"sawtooth"}

\* slice_ratio dicts of a request, as the sequence of their items; a ratio
\* sum of exactly 0.99 or 1.01 is left out, where the rounding of the float
\* sum decides
SliceRatios ==
    {<<[slice_type |-> "embb", ratio |-> 40], [slice_type |-> "urllc", ratio |-> 30],
       [slice_type |-> "mmtc", ratio |-> 30]>>,
     <<[slice_type |-> "mmtc", ratio |-> 55], [slice_type |-> "embb", ratio |-> 45]>>,
     <<[slice_type |-> "embb", ratio |-> 25], [slice_type |-> "urllc", ratio |-> 25]>>,
     <<[slice_type |-> "embb", ratio |-> 60], [slice_type |-> "urllc", ratio |-> 50]>>,
     <<[slice_type |-> "embb", ratio |-> 50], [slice_type |-> "video", ratio |-> 50]>>}

\* the status codes of the scheduler's responses
HTTP_200 == 200
HTTP_422 == 422
BAD_REQUEST == 400

\* a call may be made while the generator has made few packets
MayGenerate(traffic_volume) ==
    /\ traffic_generator # NoGenerator
    /\ traffic_generator.packet_counter + traffic_volume <= MaxGenerated

\* generate_traffic_batch returns out, [generator, packets_by_slice], and the
\* caller has the packets
Generates(request, status_code, out) ==
    /\ traffic_generator' = out.generator
    /\ generated' = [call |-> request.call, request |-> request,
                     status_code |-> status_code,
                     generated_packets |-> Lengths(out.packets_by_slice),
                     packet_distribution |-> out.packets_by_slice]

\* a request is answered without a call of the generator
Refuses(request, status_code) ==
    /\ generated' = [call |-> request.call, request |-> request,
                     status_code |-> status_code]
    /\ UNCHANGED traffic_generator

\* a call generate_traffic_batch(total_volume, pattern, elapsed_time) in
\* which get_multiplier returns pattern_multiplier
GenerateTrafficBatchOf(call, total_volume, pattern, pattern_multiplier, draw) ==
    Generates([call |-> call, traffic_volume |-> total_volume, pattern |-> pattern,
               pattern_multiplier |-> pattern_multiplier],
              HTTP_200,
              GenerateAdjusted(traffic_generator,
                               AdjustedVolume(total_volume, pattern_multiplier), draw))

\* pattern names of direct calls: a key of PATTERNS and a name that is none
DirectPatterns == {"constant", "sawtooth"}

\* traffic_generator.generate_traffic_batch(total_volume, pattern, elapsed_time)
\* called directly
GenerateTrafficBatchCall ==
    \E total_volume \in Volumes, pattern \in DirectPatterns,
       elapsed_time \in ElapsedTimes, draw \in Draws :
        /\ MayGenerate(total_volume)
        /\ GenerateTrafficBatchOf("generate_traffic_batch", total_volume, pattern,
                                  GetMultiplier(pattern, elapsed_time, draw), draw)
        /\ UNCHANGED <<engine_vars, run_vars, conn_vars>>

\* GenerateTrafficRequest.validate_pattern
ValidatePattern(pattern) == pattern \in PatternNames

\* POST /generate
GenerateTraffic ==
    \E traffic_volume \in Volumes, pattern \in RequestPatterns,
       elapsed_time \in ElapsedTimes, draw \in Draws :
        /\ MayGenerate(traffic_volume)
        /\ IF ValidatePattern(pattern)
           THEN GenerateTrafficBatchOf("generate", traffic_volume, pattern,
                                       GetMultiplier(pattern, elapsed_time, draw), draw)
           ELSE Refuses([call |-> "generate", traffic_volume |-> traffic_volume,
                         pattern |-> pattern],
                        HTTP_422)
        /\ UNCHANGED <<engine_vars, run_vars, conn_vars>>

\* sum(v.values())
RECURSIVE SumRatios(_)
SumRatios(slice_ratio) ==
    IF slice_ratio = <<>> THEN 0
    ELSE Head(slice_ratio).ratio + SumRatios(Tail(slice_ratio))

\* validate_ratios with the tolerance left out
ValidateRatiosAny(slice_ratio) == TRUE

\* GenerateAdvancedRequest.validate_ratios: abs(total - 1.0) > 0.01 raises
ValidateRatios(slice_ratio) == ~(Abs(SumRatios(slice_ratio) - 100) > 1)

\* the for loop of generate_advanced_traffic from the k-th item of
\* slice_ratio on: [generator, packets_by_slice, raised]; raised is the
\* ValueError for a slice type that is not in PROFILES
RECURSIVE AdvancedSlices(_, _, _, _, _)
AdvancedSlices(done, traffic_volume, slice_ratio, draw, k) ==
    IF k > Len(slice_ratio) \/ done.raised THEN done
    ELSE IF slice_ratio[k].slice_type \notin ProfileNames
         THEN [done EXCEPT !.raised = TRUE]
         ELSE LET made == GenerateSlicePackets(
                              done.generator, slice_ratio[k].slice_type,
                              Profile(slice_ratio[k].slice_type),
                              IntOfHundredths(traffic_volume * slice_ratio[k].ratio), draw)
              IN  AdvancedSlices(
                      [generator |-> made.generator,
                       packets_by_slice |->
                           [s \in DOMAIN done.packets_by_slice \cup {slice_ratio[k].slice_type}
                               |-> IF s = slice_ratio[k].slice_type THEN made.packets
                                   ELSE done.packets_by_slice[s]],
                       raised |-> FALSE],
                      traffic_volume, slice_ratio, draw, k + 1)

\* generate_advanced_traffic after its for loop left done: the response,
\* which has the packet counts and not the packets, or HTTP 400 for the
\* exception; the packets made before it stay made
AdvancedAnswered(request, done) ==
    IF done.raised
    THEN /\ traffic_generator' = done.generator
         /\ generated' = [call |-> request.call, request |-> request,
                          status_code |-> BAD_REQUEST]
    ELSE /\ traffic_generator' = done.generator
         /\ generated' = [call |-> request.call, request |-> request,
                          status_code |-> HTTP_200,
                          generated_packets |-> Lengths(done.packets_by_slice)]

\* POST /generate/advanced
GenerateAdvancedTraffic ==
    \E traffic_volume \in Volumes, slice_ratio \in SliceRatios, draw \in Draws :
        /\ MayGenerate(traffic_volume)
        /\ IF ValidateRatios(slice_ratio)
           THEN AdvancedAnswered(
                    [call |-> "generate_advanced", traffic_volume |-> traffic_volume,
                     slice_ratio |-> slice_ratio],
                    AdvancedSlices([generator |-> traffic_generator,
                                    packets_by_slice |-> <<>>, raised |-> FALSE],
                                   traffic_volume, slice_ratio, draw, 1))
           ELSE Refuses([call |-> "generate_advanced", traffic_volume |-> traffic_volume,
                         slice_ratio |-> slice_ratio],
                        HTTP_422)
        /\ UNCHANGED <<engine_vars, run_vars, conn_vars>>

\* POST /reset of the scheduler
ResetStatistics ==
    /\ traffic_generator # NoGenerator
    /\ traffic_generator' = AdvancedTrafficGenerator
    /\ UNCHANGED <<generated, engine_vars, run_vars, conn_vars>>

GenNext ==
    \/ GenerateTrafficBatchCall
    \/ GenerateTraffic
    \/ GenerateAdvancedTraffic
    \/ ResetStatistics

GenSpec == GenInit /\ [][GenNext]_vars

\* one service process of the deployment, a slice service or the scheduler:
\* each has its own module-level object and shares no state with the others
ServiceInit == EngineInit \/ GenInit

ServiceNext == EngineNext \/ GenNext

ServiceSpec == ServiceInit /\ [][ServiceNext]_vars

-----------------------------------------------------------------------------
(* Backend requests and the tick loop *)

\* POST /simulation/create
CreateSimulation ==
    /\ \E sim_id \in SimulationIds \ DOMAIN simulations, config \in Configs :
         simulations' = [k \in DOMAIN simulations \cup {sim_id} |->
                            IF k = sim_id THEN Simulation(config) ELSE simulations[k]]
    /\ UNCHANGED <<tasks, stop_seen, engine_vars, gen_vars, conn_vars>>

\* POST /simulation/{simulation_id}/start
StartSimulation(sim_id) ==
    /\ sim_id \in DOMAIN simulations
    /\ BagCardinality(tasks) < MaxStarts
    /\ tasks' = tasks (+) SetToBag({NewTask(sim_id)})
    /\ simulations' = [simulations EXCEPT ![sim_id].status = RUNNING]
    /\ UNCHANGED <<stop_seen, engine_vars, gen_vars, conn_vars>>

\* POST /simulation/{simulation_id}/stop
StopSimulation(sim_id) ==
    /\ sim_id \in DOMAIN simulations
    /\ simulations' = [simulations EXCEPT ![sim_id].status = STOPPED]
    /\ stop_seen' = IF simulations[sim_id].status = RUNNING
                    THEN stop_seen \cup {sim_id} ELSE stop_seen
    /\ UNCHANGED <<tasks, engine_vars, gen_vars, conn_vars>>

\* run_simulation_loop up to its next await: the set-up on the first entry,
\* the while condition and, when it holds, the dispatch of the three calls
TickBegin(task) ==
    /\ task.pc \in {"created", "sleep"}
    /\ IF LoopCondition(task, simulations[task.sim])
       THEN /\ simulations' =
                   [simulations EXCEPT ![task.sim].total_traffic_generated =
                       @ + TrafficPerCycle(simulations[task.sim].config)]
            /\ tasks' = Moved(task, [task EXCEPT !.pc = "gather"])
       ELSE /\ tasks' = Moved(task, [task EXCEPT !.pc = "closing"])
            /\ UNCHANGED simulations
    /\ UNCHANGED <<stop_seen, engine_vars, gen_vars, conn_vars>>

\* the three process_slice_traffic calls have returned: each got a 200
\* answer, or raised, timed out after 3 or got another status (None)
Gather(task) ==
    /\ task.pc = "gather"
    /\ \E results \in GatherResults(PacketCount(simulations[task.sim].config)) :
         tasks' = Moved(task, [task EXCEPT !.pc = "merge", !.results = results])
    /\ UNCHANGED <<simulations, stop_seen, engine_vars, gen_vars, conn_vars>>

\* the for loop over results merges them into the run totals; the code has
\* no await between the return of gather and this loop, so the step apart
\* from Gather only adds interleavings
Merge(task) ==
    /\ task.pc = "merge"
    /\ simulations' = [simulations EXCEPT
                          ![task.sim] = MergeResults(@, task.results, 1)]
    /\ tasks' = Moved(task, [task EXCEPT !.pc = "publish", !.results = <<>>])
    /\ UNCHANGED <<stop_seen, engine_vars, gen_vars, conn_vars>>

\* broadcast_to_simulation has returned, or has raised into the except of
\* the loop body; on either path the loop sleeps 1 and the time the tick has
\* taken is added to the elapsed time
Publish(task) ==
    /\ task.pc = "publish"
    /\ \E d \in TickTimes :
         tasks' = Moved(task, [task EXCEPT
                                  !.pc = "sleep",
                                  !.elapsed = Min(@ + d, simulations[task.sim].config.duration)])
    /\ UNCHANGED <<simulations, stop_seen, engine_vars, gen_vars, conn_vars>>

\* the status the statements after the loop leave, had they kept a status
\* that a stop request set
StatusAfterLoopKept(simulation) == simulation.status

\* simulation.status = SimulationStatus.COMPLETED after the loop
StatusAfterLoop(simulation) == COMPLETED

\* the statements after the loop: the session is closed, the status is set
Finish(task) ==
    /\ task.pc = "closing"
    /\ simulations' = [simulations EXCEPT
                          ![task.sim].status = StatusAfterLoop(simulations[task.sim])]
    /\ tasks' = Moved(task, Returned(task, "done"))
    /\ UNCHANGED <<stop_seen, engine_vars, gen_vars, conn_vars>>

\* an exception escapes to the outer handler of run_simulation_loop, which
\* logs it: raised by the set-up before the loop or by closing the session
Fault(task) ==
    /\ task.pc \in {"created", "closing"}
    /\ tasks' = Moved(task, Returned(task, "faulted"))
    /\ UNCHANGED <<simulations, stop_seen, engine_vars, gen_vars, conn_vars>>

LoopStep(task) ==
    \/ TickBegin(task)
    \/ Gather(task)
    \/ Merge(task)
    \/ Publish(task)
    \/ Finish(task)

\* the backend with no stop request and no fault
RunNextLive ==
    \/ CreateSimulation
    \/ \E sim_id \in DOMAIN simulations : StartSimulation(sim_id)
    \/ \E task \in Tasks : LoopStep(task)

RunNext ==
    \/ CreateSimulation
    \/ \E sim_id \in DOMAIN simulations : StartSimulation(sim_id)
    \/ \E sim_id \in DOMAIN simulations : StopSimulation(sim_id)
    \/ \E task \in Tasks : LoopStep(task)
    \/ \E task \in Tasks : Fault(task)

RunSpec == RunInit /\ [][RunNext]_vars

\* runs that are never stopped: the event loop runs a task that is ready,
\* the clock advances and every slice call returns, fails or times out
RunLiveSpec ==
    /\ RunInit /\ [][RunNextLive]_vars
    /\ WF_vars(\E task \in Tasks : LoopStep(task))

-----------------------------------------------------------------------------
(* The mMTC service under requests with many packets of one device *)

\* packets in a large request: the endpoint takes up to 100000 packets and
\* draws the device_id of each at random
LargeCount == 3000

\* what _aggregate_packets_by_device returns for a request of LargeCount
\* packets of size 500 that all drew device_0: one combined entry
LargeAggregated(e) ==
    [engine |-> [e EXCEPT !.aggregated_packets = @ + LargeCount - 1],
     packets |-> <<[packet_id |-> "mmtc_0", device_id |-> "device_0",
                    size |-> 500 * LargeCount, count |-> LargeCount,
                    aggregated |-> TRUE]>>]

\* a request of one packet
SmallRequest == <<[packet_id |-> "mmtc_0", device_id |-> "device_0", size |-> 100]>>

\* POST /process of the mMTC service with a request of one packet or with
\* the large request
MmtcProcessLarge ==
    /\ qos_engine.slice_type = "mmtc"
    /\ Submitted(qos_engine) < MaxPackets
    /\ \E large \in BOOLEAN, r \in MmtcSamples :
         Returns(MmtcProcessAggregated(
                     IF large THEN LargeAggregated(qos_engine)
                     ELSE MmtcAggregatePacketsByDevice(qos_engine, SmallRequest),
                     <<r>>))
    /\ UNCHANGED <<calls, solo, run_vars, gen_vars, conn_vars>>

LargeInit == EngineInit /\ qos_engine = MMTCQoSEngine

LargeNext == MmtcProcessLarge \/ MmtcReset

LargeSpec == LargeInit /\ [][LargeNext]_vars

-----------------------------------------------------------------------------
(* The three slice calls of a tick, one completion at a time *)

\* the calls of the tick that have completed so far, in the order they
\* completed; kept in the results of a task that waits in asyncio.gather
Completed(task) == {task.results[j].call : j \in DOMAIN task.results}

\* asyncio.as_completed: the outcomes in the order the calls completed
GatherAsCompleted(completions) ==
    [j \in DOMAIN completions |-> completions[j].outcome]

\* what asyncio.gather(*tasks, return_exceptions=True) returns once every
\* call has completed: the outcome of call k at position k
GatherInOrder(completions) ==
    [k \in DOMAIN completions |->
        (CHOOSE c \in {completions[j] : j \in DOMAIN completions} : c.call = k).outcome]

\* process_slice_traffic call k of the tick returns, fails or times out;
\* gather returns to the loop when it was the last of the three
CallCompletes(task, k) ==
    /\ task.pc = "gather"
    /\ k \in DOMAIN Slices \ Completed(task)
    /\ \E outcome \in SliceOutcomes(Slices[k], PacketCount(simulations[task.sim].config)) :
         LET completions == Append(task.results, [call |-> k, outcome |-> outcome])
         IN  tasks' = Moved(task,
                 IF Len(completions) = Len(Slices)
                 THEN [task EXCEPT !.pc = "merge", !.results = GatherInOrder(completions)]
                 ELSE [task EXCEPT !.results = completions])
    /\ UNCHANGED <<simulations, stop_seen, engine_vars, gen_vars, conn_vars>>

TickStep(task) ==
    \/ TickBegin(task)
    \/ \E k \in DOMAIN Slices : CallCompletes(task, k)
    \/ Merge(task)
    \/ Publish(task)
    \/ Finish(task)

TickNext ==
    \/ CreateSimulation
    \/ \E sim_id \in DOMAIN simulations : StartSimulation(sim_id)
    \/ \E sim_id \in DOMAIN simulations : StopSimulation(sim_id)
    \/ \E task \in Tasks : TickStep(task)

TickSpec == RunInit /\ [][TickNext]_vars

-----------------------------------------------------------------------------
(* Backend: the metrics websocket and ConnectionManager *)

\* the WebSocket objects of the clients; a client that comes back has a new
\* object
WebSockets == {"ws_1", "ws_2"}

\* the simulation_id of /ws/metrics/{simulation_id} and of a broadcast: any
\* string, the id of a run or not
Channels == {"sim_a", "sim_b"}

\* broadcast_to_simulation calls that are in flight together: one for each
\* tick loop the backend runs
MaxBroadcasts == 2

\* the snapshots the tick loops publish
MaxSnapshots == 3

\* websocket.accept() has returned
WebSocket(simulation_id) ==
    [state |-> "accepted", simulation_id |-> simulation_id, received |-> <<>>]

\* the elements of a list
Elements(list) == {list[k] : k \in DOMAIN list}

\* self.active_connections.get(simulation_id, [])
ActiveConnections(manager, simulation_id) ==
    IF simulation_id \in DOMAIN manager.active_connections
    THEN manager.active_connections[simulation_id]
    ELSE <<>>

\* self.active_connections[simulation_id] = list, the key made when missing
WithConnections(manager, simulation_id, list) ==
    [manager EXCEPT !.active_connections =
        [k \in DOMAIN @ \cup {simulation_id} |->
            IF k = simulation_id THEN list ELSE @[k]]]

\* list.remove(x): the list without the first x
RECURSIVE ListRemove(_, _)
ListRemove(list, x) ==
    IF list = <<>> THEN <<>>
    ELSE IF Head(list) = x THEN Tail(list)
    ELSE <<Head(list)>> \o ListRemove(Tail(list), x)

\* ConnectionManager.connect after the await of accept
ManagerConnect(manager, websocket, simulation_id) ==
    WithConnections(manager, simulation_id,
                    Append(ActiveConnections(manager, simulation_id), websocket))

\* ConnectionManager.disconnect: it has no await of its own, so it runs in
\* one piece
ManagerDisconnect(manager, websocket, simulation_id) ==
    IF websocket \in Elements(ActiveConnections(manager, simulation_id))
    THEN WithConnections(manager, simulation_id,
             ListRemove(manager.active_connections[simulation_id], websocket))
    ELSE manager

\* for conn in disconnected: await self.disconnect(conn, simulation_id)
RECURSIVE DisconnectAll(_, _, _)
DisconnectAll(manager, disconnected, simulation_id) ==
    IF disconnected = <<>> THEN manager
    ELSE DisconnectAll(ManagerDisconnect(manager, Head(disconnected), simulation_id),
                       Tail(disconnected), simulation_id)

\* what send_json raises: RuntimeError on a connection that was closed,
\* WebSocketDisconnect when the transport fails
SendErrors == {"RuntimeError", "WebSocketDisconnect"}

\* an except clause that names WebSocketDisconnect only
CatchesDisconnectOnly(exception) == exception = "WebSocketDisconnect"

\* except Exception: both are subclasses of Exception
Catches(exception) == exception \in SendErrors

\* what await connection.send_json(message) may do: deliver the message, or
\* raise; on a connection that is not open it raises
SendOutcomes(websocket) ==
    IF websockets[websocket].state = "accepted"
    THEN {"sent"} \cup SendErrors
    ELSE {"RuntimeError"}

\* the frame of broadcast_to_simulation(simulation_id, message) at its
\* first await: connections is the copy of the list, i the connection being
\* sent to, attempts what the sends so far did
BroadcastFrame(manager, simulation_id, message) ==
    [simulation_id |-> simulation_id, message |-> message,
     connections |-> ActiveConnections(manager, simulation_id),
     i |-> 1, disconnected |-> <<>>, attempts |-> <<>>]

\* broadcast_to_simulation ends: it returns after the disconnects, or an
\* exception no clause caught leaves it for the except of the tick loop
BroadcastEnds(frame, outcome) ==
    /\ published' = [simulation_id |-> frame.simulation_id,
                     message |-> frame.message,
                     connections |-> frame.connections,
                     attempts |-> frame.attempts,
                     outcome |-> outcome]
    /\ conn_manager' = IF outcome = "returned"
                       THEN DisconnectAll(conn_manager, frame.disconnected,
                                          frame.simulation_id)
                       ELSE conn_manager

\* the websocket after send_json did outcome
AfterSend(websocket, message, outcome) ==
    IF outcome = "sent"
    THEN [websocket EXCEPT !.received = Append(@, message)]
    ELSE [websocket EXCEPT !.state = IF @ = "accepted" THEN "closed" ELSE @]

\* the frame after the send to connections[i] did outcome
FrameAfterSend(frame, outcome) ==
    [frame EXCEPT
        !.i = @ + 1,
        !.attempts = Append(@, [connection |-> frame.connections[frame.i],
                                outcome |-> outcome]),
        !.disconnected = IF outcome = "sent" THEN @
                         ELSE Append(@, frame.connections[frame.i])]

\* /ws/metrics/{simulation_id}: conn_manager.connect(websocket, simulation_id)
Connect(websocket, simulation_id) ==
    /\ websocket \notin DOMAIN websockets
    /\ websockets' = [k \in DOMAIN websockets \cup {websocket} |->
                         IF k = websocket THEN WebSocket(simulation_id)
                         ELSE websockets[k]]
    /\ conn_manager' = ManagerConnect(conn_manager, websocket, simulation_id)
    /\ UNCHANGED <<broadcasts, snapshots, published, engine_vars, run_vars, gen_vars>>

\* the client goes away: the connection is closed and receive_text will raise
ClientCloses(websocket) ==
    /\ websocket \in DOMAIN websockets
    /\ websockets[websocket].state = "accepted"
    /\ websockets' = [websockets EXCEPT ![websocket].state = "closed"]
    /\ UNCHANGED <<conn_manager, broadcasts, snapshots, published,
                   engine_vars, run_vars, gen_vars>>

\* websocket_metrics: receive_text has raised and the finally clause runs
\* conn_manager.disconnect
HandlerDisconnects(websocket) ==
    /\ websocket \in DOMAIN websockets
    /\ websockets[websocket].state = "closed"
    /\ websockets' = [websockets EXCEPT ![websocket].state = "finished"]
    /\ conn_manager' = ManagerDisconnect(conn_manager, websocket,
                                         websockets[websocket].simulation_id)
    /\ UNCHANGED <<broadcasts, snapshots, published, engine_vars, run_vars, gen_vars>>

\* a tick loop calls broadcast_to_simulation(simulation_id, metrics_data):
\* the call runs to its first send_json, or to its end when the copy is empty
BroadcastEnter(simulation_id) ==
    /\ Len(broadcasts) < MaxBroadcasts
    /\ snapshots < MaxSnapshots
    /\ snapshots' = snapshots + 1
    /\ LET frame == BroadcastFrame(conn_manager, simulation_id, snapshots + 1)
       IN  IF frame.connections = <<>>
           THEN /\ BroadcastEnds(frame, "returned")
                /\ UNCHANGED broadcasts
           ELSE /\ broadcasts' = Append(broadcasts, frame)
                /\ UNCHANGED <<conn_manager, published>>
    /\ UNCHANGED <<websockets, engine_vars, run_vars, gen_vars>>

\* the await of send_json in broadcast k ends: the call runs to the next
\* send_json or to its end
BroadcastSend(k) ==
    LET frame == broadcasts[k]
        connection == frame.connections[frame.i]
    IN  \E outcome \in SendOutcomes(connection) :
          /\ websockets' = [websockets EXCEPT
                               ![connection] = AfterSend(@, frame.message, outcome)]
          /\ IF outcome # "sent" /\ ~Catches(outcome)
             THEN /\ BroadcastEnds(FrameAfterSend(frame, outcome), "raised")
                  /\ broadcasts' = Without(broadcasts, k)
             ELSE IF frame.i = Len(frame.connections)
             THEN /\ BroadcastEnds(FrameAfterSend(frame, outcome), "returned")
                  /\ broadcasts' = Without(broadcasts, k)
             ELSE /\ broadcasts' = [broadcasts EXCEPT ![k] = FrameAfterSend(frame, outcome)]
                  /\ UNCHANGED <<conn_manager, published>>
          /\ UNCHANGED <<snapshots, engine_vars, run_vars, gen_vars>>

\* the backend's websocket side after start-up: no client, no broadcast
BroadcastInit == RunInit

BroadcastNext ==
    \/ \E websocket \in WebSockets, simulation_id \in Channels :
           Connect(websocket, simulation_id)
    \/ \E websocket \in WebSockets : ClientCloses(websocket)
    \/ \E websocket \in WebSockets : HandlerDisconnects(websocket)
    \/ \E simulation_id \in Channels : BroadcastEnter(simulation_id)
    \/ \E k \in DOMAIN broadcasts : BroadcastSend(k)

BroadcastSpec == BroadcastInit /\ [][BroadcastNext]_vars

-----------------------------------------------------------------------------
(* The backend with one of its slice services *)

\* the JSON process_slice_traffic returns for a /process call the service
\* answered: the packets_processed and packets_dropped of the batch_stats,
\* with slice_type set by the caller. rejected and processed are history:
\* how far the call moved dropped_packets and processed_packets of the engine
ServedResponse(e, out) ==
    [slice_type |-> e.slice_type,
     packets_processed |-> out.stats.packets_processed,
     packets_dropped |-> out.stats.packets_dropped,
     rejected |-> out.engine.dropped_packets - e.dropped_packets,
     processed |-> out.engine.processed_packets - e.processed_packets]

\* what asyncio.gather returns when the service of engine e answered with
\* out and the connections to the other two services were refused
ServedResults(e, out) ==
    [k \in DOMAIN Slices |->
        IF Slices[k] = e.slice_type THEN ServedResponse(e, out) ELSE NoneResult]

\* the three process_slice_traffic calls have returned; the service that is
\* up built its packets and ran process_batch on them (the batch of the URLLC
\* service, which takes its default packet_count, is cut to MaxBatch)
GatherServed(task) ==
    /\ task.pc = "gather"
    /\ \E packets \in CallBatches(qos_engine) :
         /\ Len(packets) =
                Min(BatchSize(qos_engine.slice_type,
                              PacketCount(simulations[task.sim].config)), MaxBatch)
         /\ \E rnd \in [1..Iterations(qos_engine, packets) -> CallSamples(qos_engine)] :
              /\ Returns(ProcessBatch(qos_engine, packets, rnd))
              /\ tasks' = Moved(task, [task EXCEPT
                     !.pc = "merge",
                     !.results = ServedResults(qos_engine,
                                     ProcessBatch(qos_engine, packets, rnd))])
    /\ UNCHANGED <<simulations, stop_seen, calls, solo, gen_vars, conn_vars>>

\* the backend and one slice service after start-up
DeployInit ==
    /\ simulations = <<>>
    /\ tasks = EmptyBag
    /\ stop_seen = {}
    /\ qos_engine \in {EMBBQoSEngine, URLLCQoSEngine, MMTCQoSEngine}
    /\ batch_stats = NoStats
    /\ calls = <<>>
    /\ solo = NoCaller
    /\ traffic_generator = NoGenerator
    /\ generated = NoResponse
    /\ conn_manager = ConnectionManager
    /\ websockets = <<>>
    /\ broadcasts = <<>>
    /\ snapshots = 0
    /\ published = NoBroadcast

DeployStep(task) ==
    \/ TickBegin(task)
    \/ GatherServed(task)
    \/ Merge(task)
    \/ Publish(task)
    \/ Finish(task)

DeployNext ==
    \/ CreateSimulation
    \/ \E sim_id \in DOMAIN simulations : StartSimulation(sim_id)
    \/ \E sim_id \in DOMAIN simulations : StopSimulation(sim_id)
    \/ \E task \in Tasks : DeployStep(task)

DeploySpec == DeployInit /\ [][DeployNext]_vars

-----------------------------------------------------------------------------
(* Properties of the slice engines *)

QueueLength(e) ==
    IF e.slice_type = "urllc" THEN Len(e.priority_queue.heap) ELSE Len(e.queue)

ConfiguredQueueSize(e) ==
    CASE e.slice_type = "embb" -> EMBB_CONFIG.queue_size
      [] e.slice_type = "urllc" -> URLLC_CONFIG.queue_size
      [] e.slice_type = "mmtc" -> MMTC_CONFIG.queue_size

\* C1: in every state of each of the three engines the admission queue holds
\* at most queue_size packets, and so does the queue_length of every
\* BatchResult, also after a URLLC retransmission re-enqueued a packet
C1_QueueWithinCapacity ==
    /\ QueueLength(qos_engine) <= ConfiguredQueueSize(qos_engine)
    /\ batch_stats # NoStats => batch_stats.queue_length <= ConfiguredQueueSize(qos_engine)

\* the URLLC queue is full after retransmissions filled it and packets
\* arriving at the full queue were dropped
C1_Witness ==
    /\ qos_engine.slice_type = "urllc"
    /\ QueueLength(qos_engine) = URLLC_CONFIG.queue_size
    /\ qos_engine.retransmitted_packets > 0
    /\ qos_engine.dropped_packets > 0

-----------------------------------------------------------------------------
(* Properties of the runs *)

\* the status of a run, "none" before the run is created
StatusOf(sim_id) ==
    IF sim_id \in DOMAIN simulations THEN simulations[sim_id].status ELSE "none"

\* the step takes a task from the state task to the state next
Steps(task, next) == task # next /\ tasks' = Moved(task, next)

BeginsTick(task, next) ==
    Steps(task, next) /\ task.pc # "gather" /\ next.pc = "gather"

Totals(simulation) ==
    <<simulation.total_traffic_generated, simulation.total_packets_processed,
      simulation.total_packets_dropped>>

EndedByDeadline(task) == task.elapsed >= simulations[task.sim].config.duration

Finishes(task, next) ==
    Steps(task, next) /\ task.pc = "closing" /\ next.pc = "done"

Faults(task, next) ==
    Steps(task, next) /\ task.pc # "faulted" /\ next.pc = "faulted"

Merges(task, next) ==
    Steps(task, next) /\ task.pc = "merge" /\ next.pc # "merge"

Terminal == {STOPPED, COMPLETED, ERROR}

\* C2: the status of a run becomes COMPLETED only in the step that finishes a
\* tick loop which ended because the duration had elapsed, and a loop that
\* ended because a stop request made the run STOPPED leaves it STOPPED
C2_CompletedOnlyAtDeadline ==
    [][\A sim_id \in DOMAIN simulations :
          /\ (simulations[sim_id].status # COMPLETED
                  /\ simulations'[sim_id].status = COMPLETED)
                => \E task \in Tasks, next \in BagToSet(tasks') :
                       Finishes(task, next) /\ task.sim = sim_id /\ EndedByDeadline(task)
          /\ \A task \in Tasks, next \in BagToSet(tasks') :
                (Finishes(task, next) /\ task.sim = sim_id /\ ~EndedByDeadline(task)
                     /\ simulations[sim_id].status = STOPPED)
                    => simulations'[sim_id].status = STOPPED]_vars

\* C3: no step takes a run whose status is terminal back to RUNNING or
\* creates a tick loop for it
C3_TerminalIsFinal ==
    [][\A sim_id \in DOMAIN simulations :
          simulations[sim_id].status \in Terminal
              => /\ simulations'[sim_id].status # RUNNING
                 /\ CopiesIn(NewTask(sim_id), tasks') <= CopiesIn(NewTask(sim_id), tasks)]_vars

\* C4: the status of a run becomes STOPPED only from RUNNING
C4_StopOnlyWhenRunning ==
    [][\A sim_id \in DOMAIN simulations :
          (simulations[sim_id].status # STOPPED /\ simulations'[sim_id].status = STOPPED)
              => simulations[sim_id].status = RUNNING]_vars

\* C5: once a run has had a stop request while RUNNING, no tick loop of the
\* run begins a tick
C5_NoTickAfterStop ==
    [][\A task \in Tasks, next \in BagToSet(tasks') :
          task.sim \in stop_seen => ~BeginsTick(task, next)]_vars

\* C6: a fault that escapes the tick loop of a RUNNING run makes the run
\* ERROR and leaves its totals as they were
C6_FaultMakesError ==
    [][\A task \in Tasks, next \in BagToSet(tasks') :
          (Faults(task, next) /\ simulations[task.sim].status = RUNNING)
              => /\ simulations'[task.sim].status = ERROR
                 /\ Totals(simulations'[task.sim]) = Totals(simulations[task.sim])]_vars

\* C7: a run that is RUNNING and gets no stop request is eventually
\* COMPLETED, and no tick begins once the elapsed time has reached the
\* configured duration
C7_RunCompletes ==
    /\ \A sim_id \in SimulationIds :
          (StatusOf(sim_id) = RUNNING) ~> (StatusOf(sim_id) = COMPLETED)
    /\ [][\A task \in Tasks, next \in BagToSet(tasks') :
            BeginsTick(task, next) =>
                task.elapsed < simulations[task.sim].config.duration]_vars

\* a run was started, ticked until its duration had elapsed and is COMPLETED
C7_Witness ==
    \E sim_id \in DOMAIN simulations :
        /\ simulations[sim_id].status = COMPLETED
        /\ simulations[sim_id].total_traffic_generated > 0
        /\ BagIn(Returned(NewTask(sim_id), "done"), tasks)
        /\ BagCardinality(ActiveTasks(sim_id)) = 0

\* C8: no step decreases total_traffic_generated, total_packets_processed
\* or total_packets_dropped of a run
C8_TotalsMonotonic ==
    [][\A sim_id \in DOMAIN simulations :
          /\ simulations'[sim_id].total_traffic_generated
                 >= simulations[sim_id].total_traffic_generated
          /\ simulations'[sim_id].total_packets_processed
                 >= simulations[sim_id].total_packets_processed
          /\ simulations'[sim_id].total_packets_dropped
                 >= simulations[sim_id].total_packets_dropped]_vars

\* a run has been through two ticks and has merged results of both
C8_Witness ==
    \E sim_id \in DOMAIN simulations :
        /\ simulations[sim_id].total_traffic_generated
               >= 2 * TrafficPerCycle(simulations[sim_id].config)
        /\ simulations[sim_id].total_packets_processed >= 4
        /\ simulations[sim_id].total_packets_dropped >= 4

Processed(result) == IF result = NoneResult THEN 0 ELSE result.packets_processed
Dropped(result) == IF result = NoneResult THEN 0 ELSE result.packets_dropped

\* C9: the merge of a tick adds to the totals the counts of every slice whose
\* call returned a result and nothing for a slice whose call returned None,
\* whatever the other calls returned; it leaves the status of the run as it
\* is and the loop goes on to publish and sleep
C9_FailureIsolated ==
    [][\A task \in Tasks, next \in BagToSet(tasks') :
          Merges(task, next) =>
              LET results == task.results
                  before == simulations[task.sim]
                  after == simulations'[task.sim]
              IN  /\ after.total_packets_processed = before.total_packets_processed
                         + Processed(results[1]) + Processed(results[2])
                         + Processed(results[3])
                  /\ after.total_packets_dropped = before.total_packets_dropped
                         + Dropped(results[1]) + Dropped(results[2]) + Dropped(results[3])
                  /\ after.status = before.status
                  /\ next.pc = "publish"]_vars

\* the first tick of a run was merged with the eMBB call failed and the
\* other two calls answered, and the run is RUNNING
C9_Witness ==
    \E task \in Tasks :
        LET simulation == simulations[task.sim]
        IN  /\ task.pc = "publish"
            /\ simulation.status = RUNNING
            /\ simulation.total_traffic_generated = TrafficPerCycle(simulation.config)
            /\ simulation.slice_metrics["embb"] = <<>>
            /\ simulation.slice_metrics["urllc"] # <<>>
            /\ simulation.slice_metrics["mmtc"] # <<>>
            /\ simulation.total_packets_processed = 3

\* C10: at most one tick loop of a run is active at any time
C10_SingleLoopPerRun ==
    \A sim_id \in DOMAIN simulations : BagCardinality(ActiveTasks(sim_id)) <= 1

-----------------------------------------------------------------------------
(* Properties of the /process handler *)

\* C11: on every engine at most one process_batch call is between its first
\* and its last statement at any time, so the iterations of two calls are
\* never interleaved, whichever tick or run the requests come from
C11_OneCallInFlight == Len(calls) <= 1

\* a second request is being served, half-way through its batch, after an
\* earlier one has returned
C11_Witness ==
    /\ batch_stats # NoStats
    /\ Len(calls) = 1
    /\ calls[1].i = 2
    /\ Len(calls[1].packets) = 2

\* C12: what a run gets from a slice (the packets_processed and
\* packets_dropped it adds to its totals) is the same whether or not another
\* run is calling the slice as well
C12_RunsIndependent ==
    solo.caller = Observed =>
        /\ batch_stats.packets_processed = solo.stats.packets_processed
        /\ batch_stats.packets_dropped = solo.stats.packets_dropped

-----------------------------------------------------------------------------
(* Properties of the BatchResult *)

OneHundredPercent == 100 * Percent

\* the success rate a BatchResult reports
ReportedSuccessRate(stats) ==
    IF stats.slice_type = "urllc" THEN stats.reliability_index ELSE stats.success_rate

\* C13: the success rate (reliability_index for URLLC) of every BatchResult
\* lies in [0,100], and it is 0 when the engine has processed no packet
C13_SuccessRateInRange ==
    batch_stats # NoStats =>
        /\ ReportedSuccessRate(batch_stats) >= 0
        /\ ReportedSuccessRate(batch_stats) <= OneHundredPercent
        /\ batch_stats.total_processed = 0 => ReportedSuccessRate(batch_stats) = 0

\* C14: the qos_compliance_rate of every BatchResult lies in [0,100], since
\* an engine never counts more QoS violations than processed packets, and
\* the rate is 0, with no division, while the engine has processed no packet
C14_QosComplianceInRange ==
    /\ qos_engine.qos_violations <= qos_engine.processed_packets
    /\ QosComplianceRate(qos_engine) \in 0..OneHundredPercent
    /\ qos_engine.processed_packets = 0 => QosComplianceRate(qos_engine) = 0
    /\ batch_stats # NoStats =>
         /\ batch_stats.qos_violations <= batch_stats.total_processed
         /\ batch_stats.qos_compliance_rate \in 0..OneHundredPercent
         /\ batch_stats.total_processed = 0 => batch_stats.qos_compliance_rate = 0

\* a BatchResult of an engine that has dropped more packets than it has
\* processed and has counted a violation for one of its two processed packets
C14_Witness ==
    /\ batch_stats # NoStats
    /\ batch_stats.total_processed = 2
    /\ batch_stats.qos_violations = 1
    /\ batch_stats.packets_dropped = 3
    /\ batch_stats.qos_compliance_rate = 50 * Percent

-----------------------------------------------------------------------------
(* Properties of admission *)

\* the URLLC queue holds as many packets as it may
UrllcQueueIsFull(e) == Len(e.priority_queue.heap) >= URLLC_CONFIG.queue_size

\* some packet in the URLLC queue has a strictly lower priority than packet
LowerPriorityResident(e, packet) ==
    \E k \in DOMAIN e.priority_queue.heap :
        e.priority_queue.heap[k].packet.priority < packet.priority

\* the packets in the URLLC queue, in the order they would be popped
Residents(e) ==
    [k \in DOMAIN e.priority_queue.heap |-> e.priority_queue.heap[k].packet]

\* C15: a packet of priority >= 8 that meets a full URLLC queue holding a
\* packet of strictly lower priority is admitted, and one resident packet is
\* evicted and counted as dropped, so that the queue length is unchanged
C15_PreemptionAdmits ==
    qos_engine.slice_type = "urllc" =>
        \A packet \in UrllcPackets :
            (/\ UrllcQueueIsFull(qos_engine)
             /\ packet.priority >= 8
             /\ LowerPriorityResident(qos_engine, packet))
            => /\ UrllcEnqueuePacket(qos_engine, packet).ok
               /\ \E k \in DOMAIN Residents(UrllcEnqueuePacket(qos_engine, packet).engine) :
                      Residents(UrllcEnqueuePacket(qos_engine, packet).engine)[k] = packet
               /\ Len(Residents(UrllcEnqueuePacket(qos_engine, packet).engine))
                      = Len(Residents(qos_engine))
               /\ UrllcEnqueuePacket(qos_engine, packet).engine.dropped_packets
                      = qos_engine.dropped_packets + 1

\* C16: a packet that meets a full URLLC queue holding no packet of strictly
\* lower priority is rejected: enqueue_packet returns false, dropped_packets
\* grows by exactly one, the queue keeps its contents and its length, and
\* process_batch goes on to the next packet without a result for this one
C16_FullQueueRejects ==
    qos_engine.slice_type = "urllc" =>
        \A packet \in UrllcPackets :
            (/\ UrllcQueueIsFull(qos_engine)
             /\ ~LowerPriorityResident(qos_engine, packet))
            => /\ ~UrllcEnqueuePacket(qos_engine, packet).ok
               /\ UrllcEnqueuePacket(qos_engine, packet).engine
                      = [qos_engine EXCEPT !.dropped_packets = @ + 1]
               /\ \A r \in UrllcSamples :
                      UrllcProcessPacket(qos_engine, <<>>, packet, r)
                          = [engine |-> [qos_engine EXCEPT !.dropped_packets = @ + 1],
                             results |-> <<>>, raised |-> FALSE]

\* the last batch met a full URLLC queue of priority 10 packets only: none of
\* its packets was processed and the queue is as long as before
C16_Witness ==
    /\ qos_engine.slice_type = "urllc"
    /\ UrllcQueueIsFull(qos_engine)
    /\ \A k \in DOMAIN Residents(qos_engine) : Residents(qos_engine)[k].priority = 10
    /\ batch_stats # NoStats
    /\ batch_stats.packets_processed = 0
    /\ batch_stats.packets_dropped = 2
    /\ batch_stats.queue_length = URLLC_CONFIG.queue_size

\* the packets of a batch that process_batch dropped
DroppedInBatch(before, out) ==
    out.engine.dropped_packets - before.dropped_packets

\* what C17 says of one eMBB batch of n packets that meets a queue of q
\* packets: out is what process_batch returns
EmbbBatchAccounted(before, n, out) ==
    LET C == EMBB_CONFIG.queue_size
        q == Len(before.queue)
    IN  /\ out.stats.packets_processed = Min(n, C - q)
        /\ DroppedInBatch(before, out) = n - Min(n, C - q)
        /\ out.stats.packets_dropped >= n - Min(n, C - q)
        /\ out.stats.queue_length = Min(C, q + n)
        /\ Len(out.engine.queue) = Min(C, q + n)

\* C17: an eMBB batch of n packets that meets a queue of q packets of
\* capacity C has exactly min(n, C-q) packets processed and the other
\* n - min(n, C-q) dropped, and leaves a queue of min(C, q+n) packets
C17_EmbbBatchAccounting ==
    qos_engine.slice_type = "embb" =>
        \A packets \in EmbbBatches :
            \A rnd \in [1..Len(packets) -> EmbbSamples] :
                EmbbBatchAccounted(qos_engine, Len(packets),
                                   EmbbProcessBatch(qos_engine, packets, rnd))

\* a batch of two packets met a queue with room for one: one processed, one
\* dropped, and the queue is full
C17_Witness ==
    /\ batch_stats # NoStats
    /\ batch_stats.slice_type = "embb"
    /\ Len(batch_stats.detailed_results) = 1
    /\ batch_stats.packets_processed = 1
    /\ batch_stats.packets_dropped = 1
    /\ batch_stats.total_processed = EMBB_CONFIG.queue_size
    /\ batch_stats.queue_length = EMBB_CONFIG.queue_size

-----------------------------------------------------------------------------
(* Properties of the mMTC engine *)

DevicesOf(packets) == {packets[i].device_id : i \in DOMAIN packets}

\* the entries of an aggregated batch that name device_id
EntriesOfDevice(entries, device_id) ==
    {k \in DOMAIN entries : entries[k].device_id = device_id}

\* the batch holds several packets of device_id and of no other device
OnlyDeviceRepeated(packets, device_id) ==
    /\ Len(PacketsOfDevice(packets, device_id)) > 1
    /\ \A other \in DevicesOf(packets) \ {device_id} :
           Len(PacketsOfDevice(packets, other)) = 1

\* the N packets of device_id in the batch have become one combined entry
CombinedEntry(packets, entries, device_id) ==
    /\ Cardinality(EntriesOfDevice(entries, device_id)) = 1
    /\ \A k \in EntriesOfDevice(entries, device_id) :
           /\ entries[k].size = SumSizes(PacketsOfDevice(packets, device_id))
           /\ entries[k].count = Len(PacketsOfDevice(packets, device_id))

\* C18: of a batch with N > 1 packets of one device, exactly one combined
\* entry of that device (size the sum of the N sizes, count N) is offered
\* for admission, and the BatchResult of that batch reports N-1
\* aggregated packets
C18_AggregationReported ==
    qos_engine.slice_type = "mmtc" =>
        \A packets \in MmtcBatches :
            \A device_id \in DevicesOf(packets) :
                OnlyDeviceRepeated(packets, device_id) =>
                    /\ CombinedEntry(packets,
                                     MmtcAggregatePacketsByDevice(qos_engine, packets).packets,
                                     device_id)
                    /\ \A rnd \in [1..Len(packets) -> MmtcSamples] :
                           MmtcProcessBatch(qos_engine, packets, rnd).stats.packets_aggregated
                               = Len(PacketsOfDevice(packets, device_id)) - 1

RegistrySize(e) == Cardinality(e.device_registry.devices)

RegistryFull(e) == RegistrySize(e) >= e.device_registry.max_devices

\* the one call in flight is about to handle an entry of an unseen device
\* while the registry holds max_devices devices
MeetsFullRegistry ==
    /\ qos_engine.slice_type = "mmtc"
    /\ Len(calls) = 1
    /\ calls[1].i <= Len(calls[1].packets)
    /\ RegistryFull(qos_engine)
    /\ calls[1].packets[calls[1].i].device_id \notin qos_engine.device_registry.devices

\* the step is an iteration of the for loop of the one call in flight
Iterates ==
    /\ Len(calls) = 1
    /\ Len(calls') = 1
    /\ calls'[1].i = calls[1].i + 1

\* the iteration drops its entry: the engine differs in dropped_packets only,
\* by one, and the call has no new result and no new contacted device
RejectsEntry ==
    /\ qos_engine' = [qos_engine EXCEPT !.dropped_packets = @ + 1]
    /\ calls'[1].results = calls[1].results
    /\ calls'[1].contacted = calls[1].contacted

\* C19: an entry that names an unseen device while the registry holds
\* device_limit devices is rejected and counted as dropped, and the queue and
\* the registry stay as they are; the registry never holds more than
\* device_limit devices and never loses one
C19_FullRegistryRejects ==
    /\ [](qos_engine.slice_type = "mmtc" =>
              RegistrySize(qos_engine) <= MMTC_CONFIG.device_limit)
    /\ [][MeetsFullRegistry /\ Iterates => RejectsEntry]_vars
    /\ [][qos_engine.slice_type = "mmtc" =>
              qos_engine.device_registry.devices
                  \subseteq qos_engine'.device_registry.devices]_vars

\* the first entry of the call in flight named an unseen device and was
\* dropped by the full registry, while the queue had room
C19_Witness ==
    /\ qos_engine.slice_type = "mmtc"
    /\ Len(calls) = 1
    /\ calls[1].i = 2
    /\ calls[1].results = <<>>
    /\ calls[1].packets[1].device_id \notin qos_engine.device_registry.devices
    /\ RegistryFull(qos_engine)
    /\ Len(qos_engine.queue) < MMTC_CONFIG.queue_size
    /\ qos_engine.dropped_packets = 1

-----------------------------------------------------------------------------
(* Properties of overflow handling *)

\* a call is in the for loop of process_batch and has an entry to handle
InLoop ==
    /\ Len(calls) = 1
    /\ calls[1].i <= Len(calls[1].packets)

\* a call has left the for loop of process_batch
LoopDone ==
    /\ Len(calls) = 1
    /\ calls[1].i > Len(calls[1].packets)

\* the call's endpoint answers with the BatchResult of its batch
ReturnsBatchResult ==
    /\ calls' = <<>>
    /\ batch_stats'.slice_type = qos_engine.slice_type
    /\ batch_stats'.packets_processed = Len(calls[1].results)
    /\ Offered(qos_engine') = Offered(qos_engine)

\* C20: process_batch never raises for an overflow: no /process call is
\* answered with HTTP 400; each entry of a batch is processed or counted as
\* dropped and the loop goes on to the next entry, whether the queue or the
\* device registry is full; and after the last entry the BatchResult is
\* returned
C20_OverflowNeverRaises ==
    /\ [](batch_stats # HTTP_400)
    /\ [][InLoop => /\ Iterates
                    /\ Submitted(qos_engine') = Submitted(qos_engine) + 1]_vars
    /\ [][LoopDone => ReturnsBatchResult]_vars

\* the call in flight has handled both entries of its batch: the first
\* named an unseen device on a full registry and was dropped, the second was
\* processed
C20_Witness ==
    /\ qos_engine.slice_type = "mmtc"
    /\ Len(calls) = 1
    /\ Len(calls[1].packets) = 2
    /\ calls[1].i = 3
    /\ calls[1].packets[1].device_id \notin qos_engine.device_registry.devices
    /\ Len(calls[1].results) = 1
    /\ calls[1].results[1].device_id = calls[1].packets[2].device_id
    /\ qos_engine.dropped_packets = 1

-----------------------------------------------------------------------------
(* Properties of packet consumption *)

\* result is the result process_batch computed for packet
ResultOf(packet, result) ==
    /\ result.packet_id = packet.packet_id
    /\ result.priority = packet.priority

\* times the call has submitted packet to the engine so far
TimesSubmitted(frame, packet) ==
    Cardinality({k \in 1..(frame.i - 1) : frame.packets[k] = packet})

\* times the call has processed packet so far
TimesProcessed(frame, packet) ==
    Cardinality({k \in DOMAIN frame.results : ResultOf(packet, frame.results[k])})

\* the retransmissions the call in flight has made so far
Retransmitted(frame) ==
    Cardinality({k \in DOMAIN frame.results : frame.results[k].retransmitted})

\* every retransmission of the engine was made by the call in flight: the
\* queue was empty when the call was entered
QueueFromThisCall ==
    /\ Len(calls) = 1
    /\ qos_engine.retransmitted_packets = Retransmitted(calls[1])

\* C21: a packet is processed at most once: in a call that a URLLC engine
\* entered with an empty queue, where every packet in the queue comes from
\* this call, no packet has more results than the times it was submitted,
\* also after a QoS violation has pushed it again from the redundancy cache
C21_ProcessedAtMostOnce ==
    (qos_engine.slice_type = "urllc" /\ QueueFromThisCall) =>
        \A packet \in UrllcPackets :
            TimesProcessed(calls[1], packet) <= TimesSubmitted(calls[1], packet)

\* the packets in the engine's queue
QueuedPackets(e) ==
    IF e.slice_type = "urllc" THEN Residents(e) ELSE e.queue

\* the packet of result is in the engine's queue
StillQueued(e, result) ==
    \E k \in DOMAIN QueuedPackets(e) :
        /\ QueuedPackets(e)[k].packet_id = result.packet_id
        /\ IF e.slice_type = "mmtc"
           THEN QueuedPackets(e)[k].device_id = result.device_id
           ELSE QueuedPackets(e)[k].priority = result.priority

\* C22: the queue holds only packets that have not yet been processed: when
\* process_batch has returned, no packet it has computed a result for and
\* counted in processed_packets is in the engine's queue
C22_ProcessedLeaveQueue ==
    batch_stats # NoStats =>
        \A k \in DOMAIN batch_stats.detailed_results :
            ~StillQueued(qos_engine, batch_stats.detailed_results[k])

\* the step is a process_batch call: the engine has been handed packets
ProcessBatchStep == Offered(qos_engine') > Offered(qos_engine)

\* C23: the packets_dropped and qos_violations of the BatchResult of a
\* process_batch call count the packets dropped and the violations that
\* occurred during that call only
C23_BatchResultPerCall ==
    [][ProcessBatchStep =>
          /\ batch_stats'.packets_dropped
                 = qos_engine'.dropped_packets - qos_engine.dropped_packets
          /\ batch_stats'.qos_violations
                 = qos_engine'.qos_violations - qos_engine.qos_violations]_vars

-----------------------------------------------------------------------------
(* Properties of the rolling history *)

\* the k-th batch_stats of metrics_history as a reader of the history finds
\* it: the device_distribution of a mMTC entry is the engine's dict
StoredBatchResult(e, k) ==
    IF e.slice_type = "mmtc"
    THEN [e.metrics_history[k] EXCEPT !.device_distribution = e.device_distribution]
    ELSE e.metrics_history[k]

\* entries the next append to metrics_history evicts
Evicted(e) == IF Len(e.metrics_history) >= HistorySize THEN 1 ELSE 0

\* C24: a BatchResult is immutable once returned: a process_batch call
\* leaves every BatchResult that stays in the rolling history as it was,
\* field by field.
C24_BatchResultImmutable ==
    [][ProcessBatchStep =>
          \A k \in DOMAIN qos_engine.metrics_history :
              k > Evicted(qos_engine) =>
                  StoredBatchResult(qos_engine', k - Evicted(qos_engine))
                      = StoredBatchResult(qos_engine, k)]_vars

\* the history of the service: generation_history of the scheduler,
\* metrics_history of a slice service
ServiceHistory ==
    IF traffic_generator # NoGenerator
    THEN traffic_generator.generation_history
    ELSE qos_engine.metrics_history

\* a step of generate_traffic_batch: the only method that writes
\* generation_history and slice_stats, and it leaves an entry in the history
GenerateBatchStep ==
    /\ traffic_generator'.generation_history # <<>>
    /\ \/ traffic_generator'.generation_history # traffic_generator.generation_history
       \/ traffic_generator'.slice_stats # traffic_generator.slice_stats

\* a step that appends to the history of the service
HistoryAppendStep ==
    IF traffic_generator # NoGenerator THEN GenerateBatchStep ELSE ProcessBatchStep

\* the entries of history h that an append keeps
KeptBy(h) == IF Len(h) >= HistorySize THEN Tail(h) ELSE h

\* C25: a history never holds more than its capacity (1000 in the source,
\* HistorySize here); an append to a full history evicts the oldest entry
\* and the remaining entries keep their order, before the new entry.
C25_HistoryBounded ==
    /\ [](Len(ServiceHistory) <= HistorySize)
    /\ [][HistoryAppendStep =>
             /\ Len(ServiceHistory') = Len(KeptBy(ServiceHistory)) + 1
             /\ SubSeq(ServiceHistory', 1, Len(ServiceHistory') - 1)
                    = KeptBy(ServiceHistory)]_vars

\* the history of an engine is full and the call of its oldest entry was
\* not the engine's first: an older entry has been evicted
C25_Witness ==
    /\ traffic_generator = NoGenerator
    /\ Len(ServiceHistory) = HistorySize
    /\ ServiceHistory[1].total_processed > ServiceHistory[1].packets_processed

-----------------------------------------------------------------------------
(* Properties of the traffic generator *)

\* the shares of the slices, in hundredths
Share(slice_type) ==
    CASE slice_type = "embb" -> 40
      [] slice_type = "urllc" -> 30
      [] slice_type = "mmtc" -> 30

\* generated is what a generate_traffic_batch call returned
BatchReturned ==
    /\ generated.call \in {"generate_traffic_batch", "generate"}
    /\ generated.status_code = HTTP_200

HasPackets(answer) == "packet_distribution" \in DOMAIN answer

\* the packet ids of packets_by_slice
PacketIds(packets_by_slice) ==
    UNION {{packets_by_slice[s][k].packet_id : k \in DOMAIN packets_by_slice[s]}
              : s \in DOMAIN packets_by_slice}

\* packets in packets_by_slice
RECURSIVE PacketsIn(_, _)
PacketsIn(packets_by_slice, names) ==
    IF names = {} THEN 0
    ELSE LET s == CHOOSE x \in names : TRUE
         IN  Len(packets_by_slice[s]) + PacketsIn(packets_by_slice, names \ {s})

\* id a is less than id b: the order of strings of equal length
IdLess(a, b) ==
    \E k \in DOMAIN a : /\ a[k] < b[k]
                        /\ \A j \in 1..(k - 1) : a[j] = b[j]

\* C27: every packet the generator creates has an id that differs from and
\* is greater than the id of every packet it created before, whatever
\* generate, generate-advanced and reset operations are made: the ids of
\* the packets of one call are distinct, and greater than the ids of the
\* packets the call before it returned.
C27_PacketIdsIncrease ==
    /\ [](HasPackets(generated) =>
             Cardinality(PacketIds(generated.packet_distribution))
                 = PacketsIn(generated.packet_distribution, ProfileNames))
    /\ [][(GenerateBatchStep /\ HasPackets(generated)) =>
             \A old \in PacketIds(generated.packet_distribution) :
                 \A new \in PacketIds(generated'.packet_distribution) :
                     IdLess(old, new)]_vars

\* a step of generate_advanced_traffic: it answers a generate_advanced
\* request, writes neither generation_history nor slice_stats and does not
\* lower packet_counter
AdvancedStep ==
    /\ generated'.call = "generate_advanced"
    /\ traffic_generator'.generation_history = traffic_generator.generation_history
    /\ traffic_generator'.slice_stats = traffic_generator.slice_stats
    /\ traffic_generator'.packet_counter >= traffic_generator.packet_counter

\* the slice types of slice_ratio are keys of PROFILES
KnownSlices(slice_ratio) ==
    \A k \in DOMAIN slice_ratio : slice_ratio[k].slice_type \in ProfileNames

\* the shares of slice_ratio sum to 1.0 within 0.01
WithinTolerance(slice_ratio) ==
    /\ SumRatios(slice_ratio) >= 100 - 1
    /\ SumRatios(slice_ratio) <= 100 + 1

PacketCounts(gen, total_volume, pattern, elapsed_time, draw) ==
    Lengths(GenerateTrafficBatch(gen, total_volume, pattern, elapsed_time, draw)
                .packets_by_slice)

\* a pattern name that is not a key of PATTERNS
UnknownPatterns == RequestPatterns \ PatternNames

\* C29: for a pattern name that is not recognized get_multiplier returns
\* 1.0, the multiplier of constant, and generate_traffic_batch does not fail
\* and returns as many packets for each slice as for pattern constant; so
\* does every call made with such a name.
C29_UnknownPatternIsConstant ==
    /\ \A pattern \in UnknownPatterns, elapsed_time \in ElapsedTimes, draw \in Draws :
           /\ GetMultiplier(pattern, elapsed_time, draw) = 100
           /\ traffic_generator # NoGenerator =>
                  \A total_volume \in Volumes :
                      PacketCounts(traffic_generator, total_volume, pattern,
                                   elapsed_time, draw)
                          = PacketCounts(traffic_generator, total_volume, "constant",
                                         elapsed_time, draw)
    /\ (BatchReturned /\ generated.request.pattern \in UnknownPatterns) =>
           \A s \in ProfileNames :
               generated.generated_packets[s]
                   = (generated.request.traffic_volume * Share(s)) \div 100

\* a direct call with the pattern name sawtooth returned 4 / 3 / 3 packets
C29_Witness ==
    /\ BatchReturned
    /\ generated.request.pattern = "sawtooth"
    /\ generated.request.traffic_volume = 10
    /\ generated.generated_packets = [s \in ProfileNames |-> IF s = "embb" THEN 4 ELSE 3]

\* a broadcast ends in this step
BroadcastEndStep == published' # published

\* the connections of the broadcast that ended whose send did one of outcomes
Attempted(broadcast, outcomes) ==
    {broadcast.attempts[k].connection :
        k \in {j \in DOMAIN broadcast.attempts : broadcast.attempts[j].outcome \in outcomes}}

\* how many sends the broadcast made to connection
TimesSent(broadcast, connection) ==
    Cardinality({k \in DOMAIN broadcast.attempts :
                    broadcast.attempts[k].connection = connection})

\* how many times websocket has received message
TimesReceived(websocket, message) ==
    Cardinality({k \in DOMAIN websocket.received : websocket.received[k] = message})

\* C30: when broadcast_to_simulation ends it returns (it does not raise into
\* the tick loop); each subscriber that was in the run's list when it started
\* was sent the snapshot once; a subscriber whose send failed is not in the
\* run's list; every other subscriber has received the snapshot once and is
\* still in the list unless its connection has ended since.
C30_BroadcastIsolatesFailures ==
    [][BroadcastEndStep =>
          LET broadcast == published'
              registered == Elements(ActiveConnections(conn_manager',
                                                       broadcast.simulation_id))
              failed == Attempted(broadcast, SendErrors)
          IN  /\ broadcast.outcome = "returned"
              /\ \A c \in Elements(broadcast.connections) :
                     /\ TimesSent(broadcast, c) = 1
                     /\ c \in failed => c \notin registered
                     /\ c \notin failed =>
                            /\ TimesReceived(websockets'[c], broadcast.message) = 1
                            /\ \/ c \in registered
                               \/ websockets'[c].state # "accepted"]_vars

\* a broadcast to two subscribers has returned: the send to the first failed,
\* the second has the snapshot and is the one left in the list
C30_Witness ==
    /\ published.outcome = "returned"
    /\ Len(published.connections) = 2
    /\ published.attempts[1].outcome \in SendErrors
    /\ published.attempts[2].outcome = "sent"
    /\ ActiveConnections(conn_manager, published.simulation_id)
           = <<published.connections[2]>>
    /\ websockets[published.connections[2]].state = "accepted"

\* the cap of the slice's latency: max_latency * 1.2 for eMBB, * 1.5 for
\* URLLC and mMTC
LatencyCap(e) ==
    CASE e.slice_type = "embb" -> (EMBB_CONFIG.max_latency * 12) \div 10
      [] e.slice_type = "urllc" -> (URLLC_CONFIG.max_latency * 15) \div 10
      [] e.slice_type = "mmtc" -> (MMTC_CONFIG.max_latency * 15) \div 10

\* the results of the batch a process_batch call returned, none when the
\* call was answered with an error
DetailedResults(stats) ==
    IF "detailed_results" \in DOMAIN stats THEN stats.detailed_results ELSE <<>>

\* C31: in every engine the first packet processed by a call that found
\* last_latency = 0 has jitter 0, and no reported latency exceeds the slice's
\* cap (15 ms for URLLC).
C31_FirstJitterZero ==
    [][ProcessBatchStep =>
          LET results == DetailedResults(batch_stats')
          IN  /\ \A k \in DOMAIN results : results[k].latency <= LatencyCap(qos_engine)
              /\ (qos_engine.last_latency = 0 /\ results # <<>>) =>
                     results[1].jitter = 0]_vars

\* a URLLC engine has processed its first batch, of one packet, with latency
\* 2.5 ms and jitter 0
C31_Witness ==
    /\ qos_engine.slice_type = "urllc"
    /\ qos_engine.processed_packets = 1
    /\ Len(qos_engine.metrics_history) = 1
    /\ Len(DetailedResults(batch_stats)) = 1
    /\ batch_stats.detailed_results[1].jitter = 0
    /\ batch_stats.detailed_results[1].latency = 25

\* the task takes the step of Gather: the three calls of a tick have returned
GatherStep(task, next) ==
    /\ Steps(task, next)
    /\ task.pc = "gather"
    /\ next.pc = "merge"

\* C32: on every tick each of the three slice engines is handed a batch of
\* floor(floor(V / D) / 3) packets: every service that answers has processed
\* a batch of exactly the packet_count the backend sent.
C32_EqualBatches ==
    [][\A task \in Tasks, next \in BagToSet(tasks') :
          GatherStep(task, next) =>
              \A k \in DOMAIN next.results :
                  next.results[k] # NoneResult =>
                      next.results[k].batch_size
                          = PacketCount(simulations[task.sim].config)]_vars

\* the outcome call k of the tick had, when it has completed
OutcomeOf(task, k) ==
    {task.results[j].outcome : j \in {i \in DOMAIN task.results : task.results[i].call = k}}

\* C33: in every loop, gather returns to the merge only when all three calls
\* have completed, with the outcome of the call for Slices[k] at position k
\* whatever order they completed in; the merge applies them in the order
\* embb, urllc, mmtc; the publish follows the merge, the sleep the publish
\* and the next dispatch the sleep.
C33_TickOrder ==
    [][\A task \in Tasks, next \in BagToSet(tasks') :
          Steps(task, next) =>
              /\ (task.pc = "gather" /\ next.pc = "merge") =>
                     /\ Len(task.results) = Len(Slices) - 1
                     /\ \A k \in Completed(task) : OutcomeOf(task, k) = {next.results[k]}
                     /\ \A k \in DOMAIN Slices :
                            next.results[k] # NoneResult =>
                                next.results[k].slice_type = Slices[k]
              /\ next.pc = "merge" => task.pc = "gather"
              /\ task.pc = "merge" =>
                     /\ next.pc = "publish"
                     /\ simulations'[task.sim]
                            = MergeResult(MergeResult(MergeResult(simulations[task.sim],
                                  task.results[1]), task.results[2]), task.results[3])
              /\ next.pc = "publish" => task.pc = "merge"
              /\ next.pc = "sleep" => task.pc = "publish"
              /\ (next.pc = "gather" /\ task.pc # "gather") =>
                     task.pc \in {"created", "sleep"}]_vars

\* a loop waits in gather for the URLLC call after the mMTC call and then
\* the eMBB call have completed, both answered 200
C33_Witness ==
    \E task \in Tasks :
        /\ task.pc = "gather"
        /\ Len(task.results) = 2
        /\ task.results[1].call = 3
        /\ task.results[2].call = 1
        /\ task.results[1].outcome # NoneResult
        /\ task.results[2].outcome # NoneResult

\* the call in flight takes one iteration of its loop and goes on
IterationStep ==
    /\ Len(calls) = 1
    /\ Len(calls') = 1
    /\ calls'[1].i = calls[1].i + 1

\* the iteration has processed a packet: a result was added
ProcessedInStep == Len(calls'[1].results) = Len(calls[1].results) + 1

\* the result the iteration has added
NewResult == calls'[1].results[Len(calls'[1].results)]

\* C34: in the URLLC engine retransmitted_packets equals qos_violations in
\* every state, and an iteration that processes a packet which violates QoS
\* counts one retransmission and pushes that packet into the queue again
\* exactly when its id is in the redundancy cache and the queue has room;
\* otherwise it leaves the queue as the pop left it, and the batch goes on.
C34_RetransmitOnViolation ==
    /\ [](qos_engine.slice_type = "urllc" =>
              qos_engine.retransmitted_packets = qos_engine.qos_violations)
    /\ [][(qos_engine.slice_type = "urllc" /\ IterationStep /\ ProcessedInStep
              /\ ~NewResult.qos_satisfied) =>
             LET incoming == calls[1].packets[calls[1].i]
                 popped == UrllcPop(UrllcPush(qos_engine.priority_queue, incoming).pq)
             IN  /\ qos_engine'.retransmitted_packets
                        = qos_engine.retransmitted_packets + 1
                 /\ qos_engine'.priority_queue
                        = IF /\ popped.packet.packet_id \in DOMAIN qos_engine'.redundancy_cache
                             /\ ~UrllcHeapFull(popped.pq)
                          THEN UrllcPush(popped.pq, popped.packet).pq
                          ELSE popped.pq]_vars

\* the CONFIG of the engine's slice
ConfigOf(slice_type) ==
    CASE slice_type = "embb" -> EMBB_CONFIG
      [] slice_type = "urllc" -> URLLC_CONFIG
      [] slice_type = "mmtc" -> MMTC_CONFIG

\* every threshold of the slice's CONFIG holds for the result
AllThresholdsHold(config, result) ==
    /\ result.latency <= config.max_latency
    /\ result.throughput >= config.min_throughput
    /\ result.drop_rate <= config.max_drop_rate
    /\ result.jitter <= config.max_jitter

\* the results of the batch that are not marked qos_satisfied
Unsatisfied(results) == {k \in DOMAIN results : ~results[k].qos_satisfied}

\* C35: in every engine a result is marked qos_satisfied only if latency,
\* throughput, drop_rate and jitter are all within the thresholds of the
\* slice's CONFIG, and a call adds one to qos_violations for each result it
\* does not mark.
C35_SatisfiedMeansAllThresholds ==
    /\ [](\A k \in DOMAIN DetailedResults(batch_stats) :
              batch_stats.detailed_results[k].qos_satisfied =>
                  AllThresholdsHold(ConfigOf(batch_stats.slice_type),
                                    batch_stats.detailed_results[k]))
    /\ [][(ProcessBatchStep /\ "detailed_results" \in DOMAIN batch_stats') =>
              qos_engine'.qos_violations - qos_engine.qos_violations
                  = Cardinality(Unsatisfied(batch_stats'.detailed_results))]_vars

\* the entries of the heap once the incoming packet of the iteration is pushed
PushedHeap == UrllcPush(qos_engine.priority_queue,
                        calls[1].packets[calls[1].i]).pq.heap

\* entry has the highest priority value of the heap and, among the entries
\* of that priority, was pushed first
BestResident(entry, heap) ==
    \A k \in DOMAIN heap :
        \/ entry.packet.priority > heap[k].packet.priority
        \/ /\ entry.packet.priority = heap[k].packet.priority
           /\ entry.counter <= heap[k].counter

\* C36: the packet an iteration of the URLLC process_batch pops and processes
\* is a resident of the highest priority value and, among the residents of
\* that priority, the one pushed earliest, whether or not it is the packet
\* the iteration has just admitted.
C36_PopHighestPriorityFifo ==
    [][(qos_engine.slice_type = "urllc" /\ IterationStep /\ ProcessedInStep) =>
          \E k \in DOMAIN PushedHeap :
              /\ BestResident(PushedHeap[k], PushedHeap)
              /\ NewResult.packet_id = PushedHeap[k].packet.packet_id
              /\ NewResult.priority = PushedHeap[k].packet.priority
              /\ Residents(qos_engine') # <<>> =>
                     \A j \in DOMAIN Residents(qos_engine') :
                         Residents(qos_engine')[j].priority <= NewResult.priority
                             \/ NewResult.retransmitted]_vars

\* an iteration has admitted a packet of priority 8 and processed a resident
\* of priority 10
C36_Witness ==
    /\ qos_engine.slice_type = "urllc"
    /\ Len(calls) = 1
    /\ calls[1].i > 1
    /\ calls[1].results # <<>>
    /\ calls[1].packets[calls[1].i - 1].priority = 8
    /\ calls[1].results[Len(calls[1].results)].priority = 10
    /\ Len(calls[1].results) = calls[1].i - 1

\* process_batch is entered in this step
EnterStep == Len(calls') = Len(calls) + 1

\* C37: every submitted packet is accounted for exactly once: entering
\* process_batch with a batch adds to aggregated_packets the packets the
\* aggregation has combined away (none for eMBB and URLLC), every iteration
\* over an entry adds exactly one to processed_packets + dropped_packets,
\* and the return adds nothing; so after the call processed_packets +
\* dropped_packets (+ aggregated_packets for mMTC) has grown by the number of
\* packets submitted.
C37_EveryPacketAccounted ==
    [][/\ EnterStep =>
             \A packets \in CallBatches(qos_engine) :
                 calls'[Len(calls')] = CallEntered(qos_engine, packets).frame =>
                     /\ Offered(qos_engine') + Len(calls'[Len(calls')].packets)
                            = Offered(qos_engine) + Len(packets)
                     /\ Submitted(qos_engine') = Submitted(qos_engine)
       /\ IterationStep =>
             /\ Submitted(qos_engine') = Submitted(qos_engine) + 1
             /\ Offered(qos_engine') = Offered(qos_engine) + 1
       /\ Len(calls') < Len(calls) =>
             /\ calls[1].i > Len(calls[1].packets)
             /\ Offered(qos_engine') = Offered(qos_engine)]_vars

\* an mMTC engine has combined two packets into one, processed two entries
\* and dropped one
C37_Witness ==
    /\ qos_engine.slice_type = "mmtc"
    /\ qos_engine.aggregated_packets = 1
    /\ qos_engine.processed_packets = 2
    /\ qos_engine.dropped_packets = 1

\* the queue of the engine is at its capacity
AtCapacity(e) == QueueLength(e) = ConfiguredQueueSize(e)

\* C38: in each engine the queue is never shorter after a process_batch call
\* than before it, and a call on an engine whose queue is at capacity leaves
\* the queue at capacity, processes nothing and adds nothing to
\* processed_packets: every entry it submits is dropped.
C38_FullQueueStaysFull ==
    [][ProcessBatchStep =>
          /\ QueueLength(qos_engine') >= QueueLength(qos_engine)
          /\ AtCapacity(qos_engine) =>
                 /\ AtCapacity(qos_engine')
                 /\ qos_engine'.processed_packets = qos_engine.processed_packets
                 /\ DetailedResults(batch_stats') = <<>>
                 /\ qos_engine'.dropped_packets > qos_engine.dropped_packets]_vars

\* a URLLC engine whose queue retransmissions have filled has answered a
\* call by dropping its packets
C38_Witness ==
    /\ qos_engine.slice_type = "urllc"
    /\ AtCapacity(qos_engine)
    /\ batch_stats # NoStats
    /\ batch_stats.packets_processed = 0
    /\ qos_engine.dropped_packets > 0
    /\ qos_engine.retransmitted_packets = QueueSize


RECURSIVE SumOf(_, _, _)
\* the sum of a history field over the calls of results that were answered
SumOf(results, field, k) ==
    IF k > Len(results) THEN 0
    ELSE (IF results[k] = NoneResult THEN 0 ELSE results[k][field])
         + SumOf(results, field, k + 1)

\* the for loop over the results of task's tick runs in this step
MergeStep(task) ==
    /\ task.pc = "merge"
    /\ tasks' = Moved(task, [task EXCEPT !.pc = "publish", !.results = <<>>])

\* C39: each tick adds to the run's total_packets_dropped the number of
\* packets the slice engines rejected during the calls of the tick, and to
\* total_packets_processed the number they processed during those calls, so
\* that after k ticks the totals are the sums over the calls of the k ticks.
C39_TotalsMatchEngines ==
    [][\A task \in Tasks : MergeStep(task) =>
          /\ simulations'[task.sim].total_packets_dropped
                 = simulations[task.sim].total_packets_dropped
                   + SumOf(task.results, "rejected", 1)
          /\ simulations'[task.sim].total_packets_processed
                 = simulations[task.sim].total_packets_processed
                   + SumOf(task.results, "processed", 1)]_vars


\* C40: no step changes the running totals (traffic generated, packets
\* processed, packets dropped) of a run whose status is STOPPED or
\* COMPLETED, also when a stop request arrives while a tick is in flight.
C40_TerminalTotalsFrozen ==
    [][\A sim_id \in DOMAIN simulations :
          simulations[sim_id].status \in {STOPPED, COMPLETED} =>
              Totals(simulations'[sim_id]) = Totals(simulations[sim_id])]_vars

====
